---- MODULE Spec2Model ----
(***************************************************************************)
(* Flowchart editor (FlowEditor.vue): the live diagram, the selection, the *)
(* tool, the transient drag state, the snapshot history and the clipboard, *)
(* with one action per event handler.                                      *)
(*                                                                         *)
(* Representation.                                                         *)
(*  - A JS object is a record whose domain is the set of its own           *)
(*    properties.  The only properties the code ever sets to undefined are *)
(*    an edge's bendX and bendY; such a property is in the domain with the *)
(*    value Undefined, and JSON.stringify drops it.                        *)
(*  - An id is a pair <<prefix, n>>; the empty string '' used for "no id"  *)
(*    is NoId.  The id generator of the store is the counter nextId.       *)
(*  - World and client coordinates are integers, except in the runs of     *)
(*    SpecDrag, where they are counted in tenths, and of SpecAlign, where  *)
(*    they are counted in 1/1296 (halves and thirds stay exact).           *)
(*  - lineWidth is kept in tenths (1.4 is 14), scale in hundredths.        *)
(*  - TLA+ values have no identity, so sharing of the live arrays with a   *)
(*    stored snapshot is explicit: a snapshot's field shared is TRUE iff   *)
(*    its arrays are the very objects nodes.value / edges.value refer to.  *)
(*    In-place mutation of the live diagram writes through to every        *)
(*    shared snapshot; replacing the live arrays wholesale ends sharing.   *)
(***************************************************************************)
EXTENDS Integers, Sequences, FiniteSets, TLC

VARIABLES
  nodes, edges,
  selectedTool, selectedNodeId, selectedNodeIds, selectedEdgeId, connectFromId,
  draggingNodeId, draggingBendEdgeId, draggingMoved, draggingGroupIds,
  groupDragStart, dragStartPoint,
  panning, panStart, pan, scale, marquee,
  history, historyIndex, historyReady,
  clipboardData, pasteCount,
  nextId, resetPending, fault,
  events, last

vars ==
  <<nodes, edges, selectedTool, selectedNodeId, selectedNodeIds, selectedEdgeId,
    connectFromId, draggingNodeId, draggingBendEdgeId, draggingMoved,
    draggingGroupIds, groupDragStart, dragStartPoint, panning, panStart, pan,
    scale, marquee, history, historyIndex, historyReady, clipboardData,
    pasteCount, nextId, resetPending, fault, events, last>>

----------------------------------------------------------------------------
(* Bounds of the model *)

MaxEvents == 3

(* Iterations the work-queue loop of autoLayout is followed for.  A run    *)
(* that ends takes every queue entry once and the queue then holds at most *)
(* one entry per node and per dangling edge target, fewer than this bound  *)
(* in every diagram of the model; a run still going after as many          *)
(* iterations has taken some node twice and takes it again for ever.       *)
MaxLoopSteps == 16

(* Program constants *)

HistoryCap == 80

PasteStep == 28

BendRadius == 10

EdgeHitDistance == 8

BendGrid == 10

SnapGrid == 20

AlignThreshold == 8

PushDistance == 2

IoSlant == 20

DefaultLineWidth == 14

DefaultLabelFontSize == 12

MinScale == 50

MaxScale == 200

WheelStep == 10

layerGap == 170

itemGap == 140

originX == 180

originY == 120

----------------------------------------------------------------------------
(* Values *)

NoId == <<>>

(* fault: the editor runs, or a handler has not returned. *)
NoFault == ""

NeverReturns == "never returns"

(* fault: the live arrays hold null; every handler that reads the nodes or *)
(* the edges throws from here on, and the model follows the editor no      *)
(* further.                                                                *)
NullInDiagram == "null in diagram"

(* The value null as an array element. *)
Null == [null |-> TRUE]

(* The value undefined of a numeric property; no coordinate of the model   *)
(* comes near it.                                                          *)
Undefined == 0 - 1000000

BendKeys == {"bendX", "bendY"}

NodeKinds == {"start", "process", "decision", "io", "end"}

Has(obj, key) == key \in DOMAIN obj

(* typeof obj[key] === 'number', and obj[key] ?? fallback taking obj[key]. *)
HasNumber(obj, key) == key \in DOMAIN obj /\ obj[key] # Undefined

(* JSON.parse(JSON.stringify(v)) of an object and of an array of objects:  *)
(* a new value without the properties whose value is undefined.            *)
JsonObject(obj) ==
  [k \in {k \in DOMAIN obj : k \notin BendKeys \/ obj[k] # Undefined} |-> obj[k]]

JsonArray(seq) == [i \in 1..Len(seq) |-> JsonObject(seq[i])]

Without(obj, keys) == [k \in (DOMAIN obj) \ keys |-> obj[k]]

Range(seq) == {seq[i] : i \in 1..Len(seq)}

Includes(seq, v) == \E i \in 1..Len(seq) : seq[i] = v

FindById(seq, id) ==
  LET hits == {i \in 1..Len(seq) : seq[i].id = id}
  IN IF hits = {} THEN 0 ELSE CHOOSE i \in hits : \A j \in hits : i <= j

Min2(a, b) == IF a <= b THEN a ELSE b

Max2(a, b) == IF a >= b THEN a ELSE b

Abs(a) == IF a < 0 THEN -a ELSE a

----------------------------------------------------------------------------
(* The component's refs as one record, so that a handler is an operator    *)
(* from state to state and calls compose as they do in the code.           *)

St ==
  [nodes |-> nodes, edges |-> edges, selectedTool |-> selectedTool,
   selectedNodeId |-> selectedNodeId, selectedNodeIds |-> selectedNodeIds,
   selectedEdgeId |-> selectedEdgeId, connectFromId |-> connectFromId,
   draggingNodeId |-> draggingNodeId, draggingBendEdgeId |-> draggingBendEdgeId,
   draggingMoved |-> draggingMoved, draggingGroupIds |-> draggingGroupIds,
   groupDragStart |-> groupDragStart, dragStartPoint |-> dragStartPoint,
   panning |-> panning, panStart |-> panStart, pan |-> pan, scale |-> scale,
   marquee |-> marquee, history |-> history, historyIndex |-> historyIndex,
   historyReady |-> historyReady, clipboardData |-> clipboardData,
   pasteCount |-> pasteCount, nextId |-> nextId, resetPending |-> resetPending,
   fault |-> fault]

generateId(s, prefix) == <<prefix, s.nextId>>

IdTaken(s) == [s EXCEPT !.nextId = @ + 1]

(* Objects held by reference: each is the live object of its id while     *)
(* that object is in the live array.                                       *)
Aliased(objs, live) ==
  [i \in 1..Len(objs) |->
     IF FindById(live, objs[i].id) # 0 THEN live[FindById(live, objs[i].id)]
     ELSE objs[i]]

(* In-place mutation of the live arrays or of the objects in them. *)
MutateLive(s, n, e) ==
  [s EXCEPT !.nodes = n, !.edges = e,
            !.history = [i \in 1..Len(@) |->
                           IF @[i].shared
                             THEN [@[i] EXCEPT !.nodes = n, !.edges = e]
                             ELSE @[i]],
            !.clipboardData = [i \in 1..Len(@) |->
                                 IF @[i].shared
                                   THEN [@[i] EXCEPT !.nodes = Aliased(@, n),
                                                     !.edges = Aliased(@, e)]
                                   ELSE @[i]]]

(* A snapshot that is the live arrays themselves, not a copy of them. *)
cloneDiagramShared(s) ==
  [nodes |-> s.nodes, edges |-> s.edges, shared |-> TRUE]

cloneDiagram(s) ==
  [nodes |-> JsonArray(s.nodes), edges |-> JsonArray(s.edges), shared |-> FALSE]

replaceDiagram(s, nextNodes, nextEdges) ==
  [s EXCEPT !.nodes = nextNodes, !.edges = nextEdges,
            !.history = [i \in 1..Len(@) |-> [@[i] EXCEPT !.shared = FALSE]],
            !.clipboardData = [i \in 1..Len(@) |->
                                 [@[i] EXCEPT !.shared = FALSE]]]

ClearSelection(s) ==
  [s EXCEPT !.selectedNodeId = NoId, !.selectedNodeIds = <<>>,
            !.selectedEdgeId = NoId, !.connectFromId = NoId]

(* A restore that leaves connectFromId as it is. *)
applySnapshotKeepingConnect(s, snapshot) ==
  [replaceDiagram(s, JsonArray(snapshot.nodes), JsonArray(snapshot.edges))
     EXCEPT !.selectedNodeId = NoId, !.selectedNodeIds = <<>>,
            !.selectedEdgeId = NoId]

(* store.activeProject is never null while the editor is mounted (App.vue  *)
(* renders the view only under v-if="store.activeProject"), so the guard   *)
(* of line 106 never returns.                                              *)
applySnapshot(s, snapshot) ==
  ClearSelection(replaceDiagram(s, JsonArray(snapshot.nodes),
                                JsonArray(snapshot.edges)))

setSingleNodeSelection(s, id) ==
  [s EXCEPT !.selectedNodeId = id, !.selectedNodeIds = <<id>>,
            !.selectedEdgeId = NoId]

(* A node selection that leaves the edge selection as it is. *)
setNodeSelectionKeepingEdge(s, ids) ==
  [s EXCEPT !.selectedNodeIds = ids,
            !.selectedNodeId = IF Len(ids) > 0 THEN ids[1] ELSE NoId]

setNodeSelection(s, ids) ==
  [s EXCEPT !.selectedNodeIds = ids,
            !.selectedNodeId = IF Len(ids) > 0 THEN ids[1] ELSE NoId,
            !.selectedEdgeId = NoId]

(* A toggle that only ever adds. *)
addToNodeSelection(s, id) ==
  setNodeSelection(s, Append(s.selectedNodeIds, id))

toggleNodeSelection(s, id) ==
  IF Includes(s.selectedNodeIds, id)
    THEN setNodeSelection(s, SelectSeq(s.selectedNodeIds, LAMBDA n : n # id))
    ELSE setNodeSelection(s, Append(s.selectedNodeIds, id))

selectedNode(s) == FindById(s.nodes, s.selectedNodeId)

selectedEdge(s) == FindById(s.edges, s.selectedEdgeId)

canUndo(s) == s.historyIndex > 0

canRedo(s) == s.historyIndex >= 0 /\ s.historyIndex < Len(s.history) - 1

(* A reset that keeps the snapshots there are and adds one. *)
resetHistoryKeeping(s) ==
  LET snaps == Append(s.history, cloneDiagram(s))
  IN [s EXCEPT !.history = snaps, !.historyIndex = Len(snaps) - 1,
               !.historyReady = TRUE]

resetHistory(s) ==
  [s EXCEPT !.history = <<cloneDiagram(s)>>, !.historyIndex = 0,
            !.historyReady = TRUE]

(* A commit that keeps the snapshots after historyIndex. *)
commitHistoryNoTruncate(s) ==
  IF ~s.historyReady THEN s
  ELSE LET pushed == Append(s.history, cloneDiagram(s))
           capped == IF Len(pushed) > HistoryCap THEN Tail(pushed) ELSE pushed
       IN [s EXCEPT !.history = capped, !.historyIndex = Len(capped) - 1]

(* A commit that counts historyIndex up by one, also when the oldest       *)
(* snapshot is dropped.                                                    *)
commitHistoryCounting(s) ==
  IF ~s.historyReady THEN s
  ELSE LET pushed == Append(SubSeq(s.history, 1, s.historyIndex + 1),
                            cloneDiagram(s))
           capped == IF Len(pushed) > HistoryCap THEN Tail(pushed) ELSE pushed
       IN [s EXCEPT !.history = capped, !.historyIndex = @ + 1]

(* A commit that never drops the oldest snapshot. *)
commitHistoryUncapped(s) ==
  IF ~s.historyReady THEN s
  ELSE LET pushed == Append(SubSeq(s.history, 1, s.historyIndex + 1),
                            cloneDiagram(s))
       IN [s EXCEPT !.history = pushed, !.historyIndex = Len(pushed) - 1]

commitHistory(s) ==
  IF ~s.historyReady THEN s
  ELSE LET snap == cloneDiagram(s)
           kept == SubSeq(s.history, 1, s.historyIndex + 1)
           pushed == Append(kept, snap)
           capped == IF Len(pushed) > HistoryCap THEN Tail(pushed) ELSE pushed
       IN [s EXCEPT !.history = capped, !.historyIndex = Len(capped) - 1]

(* An undo that restores snapshot 0 again when historyIndex is 0. *)
undoAtZero(s) ==
  IF s.historyIndex < 0 THEN s
  ELSE LET t == [s EXCEPT !.historyIndex = Max2(@ - 1, 0)]
       IN applySnapshot(t, t.history[t.historyIndex + 1])

undo(s) ==
  IF ~canUndo(s) THEN s
  ELSE LET t == [s EXCEPT !.historyIndex = @ - 1]
       IN applySnapshot(t, t.history[t.historyIndex + 1])

(* A redo that restores the snapshot before it moves historyIndex. *)
redoBeforeStep(s) ==
  IF ~canRedo(s) THEN s
  ELSE [applySnapshot(s, s.history[s.historyIndex + 1])
          EXCEPT !.historyIndex = @ + 1]

redo(s) ==
  IF ~canRedo(s) THEN s
  ELSE LET t == [s EXCEPT !.historyIndex = @ + 1]
       IN applySnapshot(t, t.history[t.historyIndex + 1])

----------------------------------------------------------------------------
(* Geometry.  The code computes in float64; the model computes the same    *)
(* formulas over integers, a quotient being rounded to the nearest unit    *)
(* and a square root taken downwards.  The direction (dx, dy) is used      *)
(* unnormalised where the formula is homogeneous in it.  Results are exact *)
(* whenever the float result is an integer (axis-aligned cases).           *)

(* Math.round(a / b): the nearest integer, a half rounded upwards. *)
RDiv(a, b) ==
  IF b = 0 THEN 0
  ELSE LET n == IF b < 0 THEN -a ELSE a
           d == Abs(b)
       IN (2 * n + d) \div (2 * d)

RECURSIVE SqrtIter(_, _)
SqrtIter(n, x) ==
  LET y == (x + n \div x) \div 2
  IN IF y >= x THEN x ELSE SqrtIter(n, y)

ISqrt(n) == IF n < 2 THEN n ELSE SqrtIter(n, n)

Hypot(dx, dy) == ISqrt(dx * dx + dy * dy)

Sign(a) == IF a < 0 THEN -1 ELSE IF a > 0 THEN 1 ELSE 0

NoPoint == [hit |-> FALSE]

(* Client coordinates are taken relative to the canvas's bounding box    *)
(* (rect.left = rect.top = 0); the canvas is mounted.                      *)
toCanvasPoint(s, clientX, clientY) ==
  [x |-> RDiv((clientX - s.pan.x) * 100, s.scale),
   y |-> RDiv((clientY - s.pan.y) * 100, s.scale)]

(* One size for every kind. *)
nodeSizeUniform(type) == [width |-> 140, height |-> 64]

nodeSize(type) ==
  IF type = "decision" THEN [width |-> 140, height |-> 90]
  ELSE IF type = "io" THEN [width |-> 150, height |-> 70]
  ELSE [width |-> 140, height |-> 64]

(* The map's texts are strings in Chinese; the kind's name stands for them. *)
defaultText(type) == type

IoPoints(node) ==
  LET hw == node.width \div 2
      hh == node.height \div 2
  IN << [x |-> node.x - hw + IoSlant, y |-> node.y - hh],
        [x |-> node.x + hw, y |-> node.y - hh],
        [x |-> node.x + hw - IoSlant, y |-> node.y + hh],
        [x |-> node.x - hw, y |-> node.y + hh] >>

pointInPolygon(point, points) ==
  LET n == Len(points)
      Crosses(i) ==
        LET j == IF i = 1 THEN n ELSE i - 1
            xi == points[i].x
            yi == points[i].y
            xj == points[j].x
            yj == points[j].y
            den == IF yj - yi = 0 THEN 1 ELSE yj - yi
            lhs == (point.x - xi) * den
            rhs == (xj - xi) * (point.y - yi)
        IN /\ (yi > point.y) # (yj > point.y)
           /\ IF den > 0 THEN lhs < rhs ELSE lhs > rhs
  IN Cardinality({i \in 1..n : Crosses(i)}) % 2 = 1

containsPoint(node, x, y) ==
  LET dx == x - node.x
      dy == y - node.y
      hw == node.width \div 2
      hh == node.height \div 2
  IN IF node.type \in {"start", "end"}
       THEN /\ Abs(dx) <= hw
            /\ Abs(dy) <= hh
            /\ dx * dx * hh * hh + dy * dy * hw * hw <= hw * hw * hh * hh
     ELSE IF node.type = "decision"
       THEN Abs(dx) * hh + Abs(dy) * hw <= hw * hh
     ELSE IF node.type = "io"
       THEN pointInPolygon([x |-> x, y |-> y], IoPoints(node))
     ELSE Abs(dx) <= hw /\ Abs(dy) <= hh

(* Reverse z-order: the last node of the array that contains the point.    *)
(* The result is an index into ns, 0 for null.                             *)
getNodeAt(ns, x, y) ==
  LET hits == {i \in 1..Len(ns) : containsPoint(ns[i], x, y)}
  IN IF hits = {} THEN 0 ELSE CHOOSE i \in hits : \A j \in hits : j <= i

(* t is the ray parameter as the fraction tn / td with td > 0. *)
raySegmentIntersection(ox, oy, dx, dy, ax, ay, bx, by) ==
  LET sx == bx - ax
      sy == by - ay
      cross == dx * sy - dy * sx
      qpx == ax - ox
      qpy == ay - oy
      tnum == (qpx * sy - qpy * sx) * Sign(cross)
      unum == (qpx * dy - qpy * dx) * Sign(cross)
      den == Abs(cross)
  IN IF cross = 0 THEN NoPoint
     ELSE IF tnum >= 0 /\ unum >= 0 /\ unum <= den
       THEN [hit |-> TRUE, x |-> ox + RDiv(dx * tnum, den),
             y |-> oy + RDiv(dy * tnum, den), tn |-> tnum, td |-> den]
     ELSE NoPoint

Nearer(h, best) ==
  IF h.hit /\ (~best.hit \/ h.tn * best.td < best.tn * h.td) THEN h ELSE best

IoSide(node, dx, dy, a, b) ==
  raySegmentIntersection(node.x, node.y, dx, dy, a.x, a.y, b.x, b.y)

RECURSIVE BestHit(_, _, _, _, _)
BestHit(node, dx, dy, i, best) ==
  IF i > 4 THEN best
  ELSE BestHit(node, dx, dy, i + 1,
               Nearer(IoSide(node, dx, dy, IoPoints(node)[i],
                             IoPoints(node)[(i % 4) + 1]), best))

RectBoundary(node, vx, vy, hw, hh) ==
  IF vy = 0 \/ (vx # 0 /\ hw * Abs(vy) <= hh * Abs(vx))
    THEN [x |-> node.x + Sign(vx) * hw, y |-> node.y + RDiv(vy * hw, Abs(vx))]
    ELSE [x |-> node.x + RDiv(vx * hh, Abs(vy)), y |-> node.y + Sign(vy) * hh]

(* The outline taken for a circle of radius hw. *)
CircleBoundary(node, vx, vy, hw, hh, d) ==
  [x |-> node.x + RDiv(vx * hw, Hypot(vx, vy)),
   y |-> node.y + RDiv(vy * hw, Hypot(vx, vy))]

EllipseBoundary(node, vx, vy, hw, hh, d) ==
  [x |-> node.x + RDiv(vx * hw * hh, d), y |-> node.y + RDiv(vy * hw * hh, d)]

IoBoundary(node, vx, vy, hw, hh, best) ==
  IF best.hit THEN [x |-> best.x, y |-> best.y]
  ELSE RectBoundary(node, vx, vy, hw, hh)

BoundaryToward(node, vx, vy, hw, hh) ==
  IF vx = 0 /\ vy = 0 THEN [x |-> node.x, y |-> node.y]
  ELSE IF node.type \in {"start", "end"}
    THEN EllipseBoundary(node, vx, vy, hw, hh, Hypot(vx * hh, vy * hw))
  ELSE IF node.type = "decision"
    THEN EllipseBoundary(node, vx, vy, hw, hh, Abs(vx) * hh + Abs(vy) * hw)
  ELSE IF node.type = "io"
    THEN IoBoundary(node, vx, vy, hw, hh, BestHit(node, vx, vy, 1, NoPoint))
  ELSE RectBoundary(node, vx, vy, hw, hh)

nodeBoundaryPoint(node, towardX, towardY) ==
  BoundaryToward(node, towardX - node.x, towardY - node.y,
                 node.width \div 2, node.height \div 2)

pushPointOutward(point, towardX, towardY, distance) ==
  LET dx == towardX - point.x
      dy == towardY - point.y
      len == Hypot(dx, dy)
  IN IF len = 0 THEN point
     ELSE [x |-> point.x + RDiv(dx * distance, len),
           y |-> point.y + RDiv(dy * distance, len)]

EdgePathPoints(sp, tp, bx, by) ==
  [ok |-> TRUE, sx |-> sp.x, sy |-> sp.y, bx |-> bx, by |-> by,
   tx |-> tp.x, ty |-> tp.y]

EdgePathAround(source, target, bx, by) ==
  EdgePathPoints(
    pushPointOutward(nodeBoundaryPoint(source, bx, by), bx, by, PushDistance),
    pushPointOutward(nodeBoundaryPoint(target, bx, by), bx, by, PushDistance),
    bx, by)

EdgePathBend(source, target, edge, preS, preT) ==
  EdgePathAround(source, target,
    IF HasNumber(edge, "bendX") THEN edge.bendX ELSE RDiv(preS.x + preT.x, 2),
    IF HasNumber(edge, "bendY") THEN edge.bendY ELSE RDiv(preS.y + preT.y, 2))

EdgePathRaw(source, target, edge, rawBx, rawBy) ==
  EdgePathBend(source, target, edge,
               nodeBoundaryPoint(source, rawBx, rawBy),
               nodeBoundaryPoint(target, rawBx, rawBy))

EdgePathBetween(source, target, edge) ==
  EdgePathRaw(source, target, edge,
    IF HasNumber(edge, "bendX") THEN edge.bendX
    ELSE RDiv(source.x + target.x, 2),
    IF HasNumber(edge, "bendY") THEN edge.bendY
    ELSE RDiv(source.y + target.y, 2))

(* The result has ok = FALSE for null. *)
edgePath(ns, edge) ==
  IF FindById(ns, edge.sourceId) = 0 \/ FindById(ns, edge.targetId) = 0
    THEN [ok |-> FALSE]
    ELSE EdgePathBetween(ns[FindById(ns, edge.sourceId)],
                         ns[FindById(ns, edge.targetId)], edge)

pointToSegmentDistance(px, py, x1, y1, x2, y2) ==
  LET A == px - x1
      B == py - y1
      C == x2 - x1
      D == y2 - y1
      dot == A * C + B * D
      lenSq == C * C + D * D
  IN IF lenSq = 0 \/ dot <= 0 THEN Hypot(A, B)
     ELSE IF dot >= lenSq THEN Hypot(px - x2, py - y2)
     ELSE RDiv(Abs(A * D - B * C), ISqrt(lenSq))

Last(hits) == IF hits = {} THEN 0 ELSE CHOOSE i \in hits : \A j \in hits : j <= i

NearPath(p, x, y, hitDistance) ==
  /\ p.ok
  /\ Min2(pointToSegmentDistance(x, y, p.sx, p.sy, p.bx, p.by),
          pointToSegmentDistance(x, y, p.bx, p.by, p.tx, p.ty)) <= hitDistance

NearBend(p, x, y, radius) == p.ok /\ Hypot(x - p.bx, y - p.by) <= radius

(* Both return an index into the edges, 0 for null; the thresholds are     *)
(* 8 / scale and 10 / scale.                                               *)
getEdgeAt(s, x, y) ==
  Last({i \in 1..Len(s.edges) :
          NearPath(edgePath(s.nodes, s.edges[i]), x, y,
                   RDiv(EdgeHitDistance * 100, s.scale))})

getBendHandleEdgeAt(s, x, y) ==
  Last({i \in 1..Len(s.edges) :
          NearBend(edgePath(s.nodes, s.edges[i]), x, y,
                   RDiv(BendRadius * 100, s.scale))})

(* The drag of nodes is written for coordinates counted in steps of       *)
(* 1 / unit: unit is 1 where every coordinate is a whole number, 10 where  *)
(* nodes lie at tenths.  Math.round(v) is then RDiv(v, unit) * unit.       *)
applySnap(unit, ns, rawX, rawY, movingId) ==
  LET gx == RDiv(rawX, SnapGrid * unit) * SnapGrid * unit
      gy == RDiv(rawY, SnapGrid * unit) * SnapGrid * unit
      Snap(acc, node) ==
        IF node.id = movingId THEN acc
        ELSE [x |-> IF Abs(node.x - acc.x) <= AlignThreshold * unit
                      THEN node.x ELSE acc.x,
              y |-> IF Abs(node.y - acc.y) <= AlignThreshold * unit
                      THEN node.y ELSE acc.y]
      Fold[i \in 0..Len(ns)] ==
        IF i = 0 THEN [x |-> gx, y |-> gy] ELSE Snap(Fold[i - 1], ns[i])
  IN Fold[Len(ns)]

marqueeRect(m) ==
  [x1 |-> Min2(m.startX, m.endX), y1 |-> Min2(m.startY, m.endY),
   x2 |-> Max2(m.startX, m.endX), y2 |-> Max2(m.startY, m.endY)]

(* An intersection test that takes a box that only touches as outside. *)
nodeOverlapsRect(node, rect) ==
  LET left == node.x - node.width \div 2
      right == node.x + node.width \div 2
      top == node.y - node.height \div 2
      bottom == node.y + node.height \div 2
  IN ~(right <= rect.x1 \/ left >= rect.x2 \/ bottom <= rect.y1 \/ top >= rect.y2)

nodeIntersectsRect(node, rect) ==
  LET left == node.x - node.width \div 2
      right == node.x + node.width \div 2
      top == node.y - node.height \div 2
      bottom == node.y + node.height \div 2
  IN ~(right < rect.x1 \/ left > rect.x2 \/ bottom < rect.y1 \/ top > rect.y2)


----------------------------------------------------------------------------
(* Handlers *)

Default(obj, key, value) ==
  IF Has(obj, key) THEN obj ELSE (key :> value) @@ obj

ensureEdgeDefaults(edge) ==
  Default(Default(Default(Default(Default(Default(edge,
    "lineStyle", "solid"),
    "lineColor", "#334155"),
    "lineWidth", DefaultLineWidth),
    "labelColor", "#94a3b8"),
    "labelFontSize", DefaultLabelFontSize),
    "labelBold", FALSE)

createNode(s, type, x, y) ==
  LET size == nodeSize(type)
      node == [id |-> generateId(s, "node"), type |-> type,
               text |-> defaultText(type), x |-> x, y |-> y,
               width |-> size.width, height |-> size.height]
      s1 == MutateLive(IdTaken(s), Append(s.nodes, node), s.edges)
  IN commitHistory(setSingleNodeSelection(s1, node.id))

(* The edge with its ends exchanged. *)
NewEdgeReversed(s, id) ==
  [id |-> generateId(s, "edge"), sourceId |-> id,
   targetId |-> s.connectFromId, label |-> "", labelColor |-> "#94a3b8",
   labelFontSize |-> DefaultLabelFontSize, labelBold |-> FALSE,
   lineStyle |-> "solid", lineColor |-> "#334155",
   lineWidth |-> DefaultLineWidth]

NewEdge(s, id) ==
  [id |-> generateId(s, "edge"), sourceId |-> s.connectFromId,
   targetId |-> id, label |-> "", labelColor |-> "#94a3b8",
   labelFontSize |-> DefaultLabelFontSize, labelBold |-> FALSE,
   lineStyle |-> "solid", lineColor |-> "#334155",
   lineWidth |-> DefaultLineWidth]

(* A connect click that accepts the source node as the target. *)
(* The watcher on store.activeProject, run for the project switched to,    *)
(* whose flow is d: the live arrays become the project's, the selection    *)
(* and the connect source are cleared, and the nextTick callback that      *)
(* resets the history is left pending.  The drag refs and the history      *)
(* itself are not touched here.                                            *)
activateProject(s, d) ==
  [replaceDiagram(s, d.nodes, d.edges)
     EXCEPT !.selectedNodeId = NoId, !.selectedNodeIds = <<>>,
            !.selectedEdgeId = NoId, !.connectFromId = NoId,
            !.resetPending = TRUE]

ConnectClickAnyTarget(s, ni) ==
  IF ni = 0 THEN s
  ELSE LET id == s.nodes[ni].id
       IN IF s.connectFromId = NoId
            THEN setSingleNodeSelection([s EXCEPT !.connectFromId = id], id)
          ELSE LET s1 == MutateLive(IdTaken(s), s.nodes,
                                    Append(s.edges, NewEdge(s, id)))
               IN commitHistory(ClearSelection(s1))

ConnectClick(s, ni) ==
  IF ni = 0 THEN s
  ELSE LET id == s.nodes[ni].id
       IN IF s.connectFromId = NoId
            THEN setSingleNodeSelection([s EXCEPT !.connectFromId = id], id)
          ELSE IF s.connectFromId # id
            THEN LET s1 == MutateLive(IdTaken(s), s.nodes,
                                      Append(s.edges, NewEdge(s, id)))
                 IN commitHistory(ClearSelection(s1))
          ELSE s

StartNodeDrag(s, ni, p) ==
  LET id == s.nodes[ni].id
      s1 == IF ~Includes(s.selectedNodeIds, id)
              THEN setSingleNodeSelection(s, id)
              ELSE [s EXCEPT !.selectedNodeId = id, !.selectedEdgeId = NoId]
      group == IF Includes(s1.selectedNodeIds, id) THEN s1.selectedNodeIds
               ELSE <<id>>
      found == {g \in Range(group) : FindById(s.nodes, g) # 0}
  IN [s1 EXCEPT !.draggingNodeId = id, !.draggingMoved = FALSE,
                !.draggingGroupIds = group,
                !.groupDragStart =
                   [g \in found |->
                      [x |-> s.nodes[FindById(s.nodes, g)].x,
                       y |-> s.nodes[FindById(s.nodes, g)].y]],
                !.dragStartPoint = [x |-> p.x, y |-> p.y]]

SelectEdge(s, ei) ==
  [MutateLive(s, s.nodes, [s.edges EXCEPT ![ei] = ensureEdgeDefaults(@)])
     EXCEPT !.selectedEdgeId = s.edges[ei].id, !.selectedNodeId = NoId,
            !.selectedNodeIds = <<>>]

StartBendDrag(s, bi) ==
  [SelectEdge(s, bi) EXCEPT !.draggingBendEdgeId = s.edges[bi].id,
                            !.draggingMoved = FALSE]

(* A marquee that starts from an empty selection. *)
StartMarqueeAfresh(s, p) ==
  [s EXCEPT !.marquee = [active |-> TRUE, startX |-> p.x, startY |-> p.y,
                         endX |-> p.x, endY |-> p.y, append |-> TRUE],
            !.selectedNodeId = NoId, !.selectedNodeIds = <<>>,
            !.selectedEdgeId = NoId]

StartMarquee(s, p) ==
  [s EXCEPT !.marquee = [active |-> TRUE, startX |-> p.x, startY |-> p.y,
                         endX |-> p.x, endY |-> p.y, append |-> TRUE],
            !.selectedEdgeId = NoId]

StartPan(s, clientX, clientY) ==
  [s EXCEPT !.selectedNodeId = NoId, !.selectedNodeIds = <<>>,
            !.selectedEdgeId = NoId, !.panning = TRUE,
            !.panStart = [x |-> clientX - s.pan.x, y |-> clientY - s.pan.y]]

(* The hit test with a node under the point taken before a bend handle. *)
MouseDownOnNodeFirst(s, p, bi, ni, ei, clientX, clientY, shiftKey) ==
  IF s.selectedTool = "select" /\ ni # 0
    THEN IF shiftKey THEN toggleNodeSelection(s, s.nodes[ni].id)
         ELSE StartNodeDrag(s, ni, p)
  ELSE IF bi # 0 /\ s.selectedTool = "select" THEN StartBendDrag(s, bi)
  ELSE IF s.selectedTool = "connect" THEN ConnectClick(s, ni)
  ELSE IF s.selectedTool # "select"
    THEN [createNode(s, s.selectedTool, p.x, p.y)
            EXCEPT !.selectedTool = "select"]
  ELSE IF ei # 0 THEN SelectEdge(s, ei)
  ELSE IF shiftKey THEN StartMarquee(s, p)
  ELSE StartPan(s, clientX, clientY)

MouseDownOn(s, p, bi, ni, ei, clientX, clientY, shiftKey) ==
  IF bi # 0 /\ s.selectedTool = "select" THEN StartBendDrag(s, bi)
  ELSE IF s.selectedTool = "connect" THEN ConnectClick(s, ni)
  ELSE IF s.selectedTool # "select"
    THEN [createNode(s, s.selectedTool, p.x, p.y)
            EXCEPT !.selectedTool = "select"]
  ELSE IF ni # 0
    THEN IF shiftKey THEN toggleNodeSelection(s, s.nodes[ni].id)
         ELSE StartNodeDrag(s, ni, p)
  ELSE IF ei # 0 THEN SelectEdge(s, ei)
  ELSE IF shiftKey THEN StartMarquee(s, p)
  ELSE StartPan(s, clientX, clientY)

MouseDownAt(s, p, clientX, clientY, shiftKey) ==
  MouseDownOn(s, p, getBendHandleEdgeAt(s, p.x, p.y),
              getNodeAt(s.nodes, p.x, p.y), getEdgeAt(s, p.x, p.y),
              clientX, clientY, shiftKey)

onMouseDown(s, clientX, clientY, shiftKey) ==
  MouseDownAt(s, toCanvasPoint(s, clientX, clientY), clientX, clientY, shiftKey)

MoveGroup(unit, s, dx, dy) ==
  [i \in 1..Len(s.nodes) |->
     LET n == s.nodes[i]
     IN IF Includes(s.draggingGroupIds, n.id) /\ n.id \in DOMAIN s.groupDragStart
          THEN [n EXCEPT !.x = RDiv(s.groupDragStart[n.id].x + dx, unit) * unit,
                         !.y = RDiv(s.groupDragStart[n.id].y + dy, unit) * unit]
          ELSE n]

(* A node drag without the tests for a node that is gone: it throws on    *)
(* reading the position of a group member that is not in the diagram.      *)
DragNodesUnguarded(unit, s, p) ==
  IF \E g \in Range(s.draggingGroupIds) : FindById(s.nodes, g) = 0
    THEN [s EXCEPT !.fault = "TypeError"]
    ELSE LET dx == p.x - s.dragStartPoint.x
             dy == p.y - s.dragStartPoint.y
             s1 == MutateLive(s, MoveGroup(unit, s, dx, dy), s.edges)
         IN [s1 EXCEPT !.draggingMoved = TRUE]

(* The node-drag branch of onMouseMove, the pointer at p. *)
DragNodes(unit, s, p) ==
  LET leaderId == s.draggingNodeId
  IN IF leaderId \notin DOMAIN s.groupDragStart THEN s
     ELSE LET leaderStart == s.groupDragStart[leaderId]
              rawX == leaderStart.x + (p.x - s.dragStartPoint.x)
              rawY == leaderStart.y + (p.y - s.dragStartPoint.y)
              snapped == applySnap(unit, s.nodes, rawX, rawY, leaderId)
              dx == snapped.x - leaderStart.x
              dy == snapped.y - leaderStart.y
              s1 == MutateLive(s, MoveGroup(unit, s, dx, dy), s.edges)
          IN [s1 EXCEPT !.draggingMoved = TRUE]

onMouseMove(s, clientX, clientY) ==
  LET p == toCanvasPoint(s, clientX, clientY)
  IN IF s.draggingBendEdgeId # NoId
       THEN LET ei == FindById(s.edges, s.draggingBendEdgeId)
            IN IF ei = 0 THEN s
               ELSE LET bent == [bendX |-> RDiv(p.x, BendGrid) * BendGrid,
                                 bendY |-> RDiv(p.y, BendGrid) * BendGrid]
                                @@ s.edges[ei]
                        s1 == MutateLive(s, s.nodes,
                                         [s.edges EXCEPT ![ei] = bent])
                    IN [s1 EXCEPT !.draggingMoved = TRUE]
     ELSE IF s.draggingNodeId # NoId THEN DragNodes(1, s, p)
     ELSE IF s.marquee.active
       THEN [s EXCEPT !.marquee.endX = p.x, !.marquee.endY = p.y]
     ELSE IF s.panning
       THEN [s EXCEPT !.pan = [x |-> clientX - s.panStart.x,
                               y |-> clientY - s.panStart.y]]
     ELSE s

RECURSIVE Union(_, _)
Union(acc, ids) ==
  IF ids = <<>> THEN acc
  ELSE Union(IF Includes(acc, Head(ids)) THEN acc ELSE Append(acc, Head(ids)),
             Tail(ids))

IdsOf(seq) == [i \in 1..Len(seq) |-> seq[i].id]

onMouseUp(s) ==
  IF s.marquee.active
    THEN LET rect == marqueeRect(s.marquee)
             ids == IdsOf(SelectSeq(s.nodes,
                                    LAMBDA n : nodeIntersectsRect(n, rect)))
             s1 == IF s.marquee.append
                     THEN setNodeSelection(s, Union(Union(<<>>, s.selectedNodeIds), ids))
                     ELSE setNodeSelection(s, ids)
         IN [s1 EXCEPT !.marquee.active = FALSE]
  ELSE LET s1 == IF (s.draggingNodeId # NoId \/ s.draggingBendEdgeId # NoId)
                     /\ s.draggingMoved
                   THEN commitHistory(s) ELSE s
       IN [s1 EXCEPT !.draggingNodeId = NoId, !.draggingGroupIds = <<>>,
                     !.groupDragStart = <<>>, !.draggingBendEdgeId = NoId,
                     !.draggingMoved = FALSE, !.panning = FALSE]

(* The prompt returns <<>> for null (cancel) or <<text>>; the texts of the *)
(* model carry no surrounding blanks, so trim() leaves them as they are.   *)
onDoubleClick(s, answer) ==
  LET ni == selectedNode(s)
  IN IF ni = 0 \/ answer = <<>> THEN s
     ELSE LET nextText == answer[1]
          IN IF nextText = "" \/ nextText = s.nodes[ni].text THEN s
             ELSE commitHistory(
                    MutateLive(s, [s.nodes EXCEPT ![ni].text = nextText],
                               s.edges))

(* A delete that removes only the edges leaving a selected node. *)
(* window.confirm answered by confirmed. *)
clearFlow(s, confirmed) ==
  IF ~confirmed THEN s
  ELSE LET s1 == MutateLive(s, <<>>, <<>>)
       IN commitHistory([s1 EXCEPT !.selectedNodeId = NoId,
                                   !.selectedNodeIds = <<>>,
                                   !.selectedEdgeId = NoId,
                                   !.connectFromId = NoId])

(* A delete of the selected nodes that leaves them selected. *)
deleteSelectedKeepingSelection(s) ==
  IF Len(s.selectedNodeIds) > 0
    THEN LET ids == Range(s.selectedNodeIds)
             keptN == SelectSeq(s.nodes, LAMBDA n : n.id \notin ids)
             keptE == SelectSeq(s.edges,
                        LAMBDA e : ~(e.sourceId \in ids \/ e.targetId \in ids))
         IN commitHistory(MutateLive(s, keptN, keptE))
  ELSE s

deleteSelectedBySource(s) ==
  IF Len(s.selectedNodeIds) > 0
    THEN LET ids == Range(s.selectedNodeIds)
             keptN == SelectSeq(s.nodes, LAMBDA n : n.id \notin ids)
             keptE == SelectSeq(s.edges, LAMBDA e : e.sourceId \notin ids)
             s1 == MutateLive(s, keptN, keptE)
         IN commitHistory([s1 EXCEPT !.selectedNodeId = NoId,
                                     !.selectedNodeIds = <<>>])
  ELSE IF selectedEdge(s) # 0
    THEN LET idx == selectedEdge(s)
             keptE == [i \in 1..(Len(s.edges) - 1) |->
                         IF i < idx THEN s.edges[i] ELSE s.edges[i + 1]]
             s1 == MutateLive(s, s.nodes, keptE)
         IN commitHistory([s1 EXCEPT !.selectedEdgeId = NoId])
  ELSE s

deleteSelected(s) ==
  IF Len(s.selectedNodeIds) > 0
    THEN LET ids == Range(s.selectedNodeIds)
             keptN == SelectSeq(s.nodes, LAMBDA n : n.id \notin ids)
             keptE == SelectSeq(s.edges,
                        LAMBDA e : ~(e.sourceId \in ids \/ e.targetId \in ids))
             s1 == MutateLive(s, keptN, keptE)
         IN commitHistory([s1 EXCEPT !.selectedNodeId = NoId,
                                     !.selectedNodeIds = <<>>])
  ELSE IF selectedEdge(s) # 0
    THEN LET idx == selectedEdge(s)
             keptE == [i \in 1..(Len(s.edges) - 1) |->
                         IF i < idx THEN s.edges[i] ELSE s.edges[i + 1]]
             s1 == MutateLive(s, s.nodes, keptE)
         IN commitHistory([s1 EXCEPT !.selectedEdgeId = NoId])
  ELSE s

(* A copy that puts the live objects themselves on the clipboard. *)
copySelectedAliased(s) ==
  LET ids == IF Len(s.selectedNodeIds) > 0 THEN Range(s.selectedNodeIds)
             ELSE IF selectedNode(s) # 0 THEN {s.nodes[selectedNode(s)].id}
             ELSE {}
      clipNodes == SelectSeq(s.nodes, LAMBDA n : n.id \in ids)
      clipEdges == SelectSeq(s.edges,
                     LAMBDA e : e.sourceId \in ids /\ e.targetId \in ids)
  IN IF ids = {} THEN s
     ELSE [s EXCEPT !.clipboardData = <<[nodes |-> clipNodes,
                                         edges |-> clipEdges,
                                         shared |-> TRUE]>>,
                    !.pasteCount = 0]

(* clipboardData is <<>> for null, else <<[nodes, edges, shared]>>: the    *)
(* arrays of copies ({ ...n }, { ...e }), shared telling whether they hold *)
(* the live objects instead.                                               *)
copySelected(s) ==
  LET ids == IF Len(s.selectedNodeIds) > 0 THEN Range(s.selectedNodeIds)
             ELSE IF selectedNode(s) # 0 THEN {s.nodes[selectedNode(s)].id}
             ELSE {}
      clipNodes == SelectSeq(s.nodes, LAMBDA n : n.id \in ids)
      clipEdges == SelectSeq(s.edges,
                     LAMBDA e : e.sourceId \in ids /\ e.targetId \in ids)
  IN IF ids = {} THEN s
     ELSE [s EXCEPT !.clipboardData = <<[nodes |-> clipNodes,
                                         edges |-> clipEdges,
                                         shared |-> FALSE]>>,
                    !.pasteCount = 0]

(* A pasted edge that keeps the id of the copied edge. *)
PastedEdgeOldId(e, id, sourceId, targetId, offset) ==
  LET styled == ensureEdgeDefaults(e)
  IN [k \in (DOMAIN styled) \cup BendKeys |->
        IF k = "sourceId" THEN sourceId
        ELSE IF k = "targetId" THEN targetId
        ELSE IF k \in BendKeys
          THEN IF HasNumber(e, k) THEN e[k] + offset ELSE Undefined
        ELSE styled[k]]

(* A pasted edge whose bend stays where the copied edge has it. *)
PastedEdgeBendKept(e, id, sourceId, targetId, offset) ==
  LET styled == ensureEdgeDefaults(e)
  IN [k \in (DOMAIN styled) \cup BendKeys |->
        IF k = "id" THEN id
        ELSE IF k = "sourceId" THEN sourceId
        ELSE IF k = "targetId" THEN targetId
        ELSE IF k \in BendKeys
          THEN IF HasNumber(e, k) THEN e[k] ELSE Undefined
        ELSE styled[k]]

(* A pasted edge that keeps the endpoints of the copied edge. *)
PastedEdgeOldEnds(e, id, sourceId, targetId, offset) ==
  LET styled == ensureEdgeDefaults(e)
  IN [k \in (DOMAIN styled) \cup BendKeys |->
        IF k = "id" THEN id
        ELSE IF k \in BendKeys
          THEN IF HasNumber(e, k) THEN e[k] + offset ELSE Undefined
        ELSE styled[k]]

(* The object literal of lines 802-815: the spread of e, then the keys it  *)
(* sets; the style keys get the fallbacks ensureEdgeDefaults gives.        *)
PastedEdge(e, id, sourceId, targetId, offset) ==
  LET styled == ensureEdgeDefaults(e)
  IN [k \in (DOMAIN styled) \cup BendKeys |->
        IF k = "id" THEN id
        ELSE IF k = "sourceId" THEN sourceId
        ELSE IF k = "targetId" THEN targetId
        ELSE IF k \in BendKeys
          THEN IF HasNumber(e, k) THEN e[k] + offset ELSE Undefined
        ELSE styled[k]]

pasteClipboard(s) ==
  IF s.clipboardData = <<>> \/ Len(s.clipboardData[1].nodes) = 0 THEN s
  ELSE LET clip == s.clipboardData[1]
           count == s.pasteCount + 1
           offset == PasteStep * count
           nn == Len(clip.nodes)
           NodeId(i) == <<"node", s.nextId + i - 1>>
           idMap == [i \in 1..nn |-> NodeId(i)]
           Mapped(old) ==
             LET hits == {i \in 1..nn : clip.nodes[i].id = old}
             IN IF hits = {} THEN NoId
                ELSE idMap[CHOOSE i \in hits : \A j \in hits : j <= i]
           nextNodes == [i \in 1..nn |->
                           [clip.nodes[i] EXCEPT !.id = NodeId(i),
                                                 !.x = @ + offset,
                                                 !.y = @ + offset]]
           okEdges == SelectSeq(clip.edges,
                        LAMBDA e : Mapped(e.sourceId) # NoId
                                   /\ Mapped(e.targetId) # NoId)
           nextEdges == [i \in 1..Len(okEdges) |->
                           PastedEdge(okEdges[i],
                                      <<"edge", s.nextId + nn + i - 1>>,
                                      Mapped(okEdges[i].sourceId),
                                      Mapped(okEdges[i].targetId), offset)]
           s1 == MutateLive([s EXCEPT !.pasteCount = count,
                                      !.nextId = @ + nn + Len(okEdges)],
                            s.nodes \o nextNodes, s.edges \o nextEdges)
           s2 == setNodeSelection(s1, IdsOf(nextNodes))
       IN commitHistory([s2 EXCEPT !.selectedEdgeId = NoId,
                                   !.connectFromId = NoId])

selectAll(s) == setNodeSelection(s, IdsOf(s.nodes))

(* map.get(key) || fallback, and map.set(key, value), of a Map kept as a   *)
(* function on its keys.                                                   *)
Get(map, key, fallback) == IF key \in DOMAIN map THEN map[key] ELSE fallback

Put(map, key, value) ==
  [k \in (DOMAIN map) \cup {key} |-> IF k = key THEN value ELSE map[k]]

(* incomingCount after the edges from k on are counted. *)
RECURSIVE CountIncoming(_, _, _)
CountIncoming(counts, es, k) ==
  IF k > Len(es) THEN counts
  ELSE CountIncoming(Put(counts, es[k].targetId,
                         Get(counts, es[k].targetId, 0) + 1), es, k + 1)

(* adj.get(id) || []: the targets of the edges that leave node id, in edge *)
(* order; nothing is pushed for a source that is not a node.               *)
Children(ns, es, id) ==
  IF FindById(ns, id) = 0 THEN <<>>
  ELSE LET out == SelectSeq(es, LAMBDA e : e.sourceId = id)
       IN [i \in 1..Len(out) |-> out[i].targetId]

(* A loop that queues a child the first time it is met, one layer below   *)
(* the entry it is met from.                                               *)
RECURSIVE RelaxFirstSeen(_, _, _, _)
RelaxFirstSeen(w, d, children, k) ==
  IF k > Len(children) THEN w
  ELSE LET child == children[k]
       IN IF child \in DOMAIN w.depth
            THEN RelaxFirstSeen(w, d, children, k + 1)
            ELSE RelaxFirstSeen([queue |-> Append(w.queue, child),
                                 depth |-> Put(w.depth, child, d + 1),
                                 incomingCount |-> w.incomingCount],
                                d, children, k + 1)

(* The for loop over the children of a queue entry of depth d, from the    *)
(* k-th child on; w holds queue, depth and incomingCount.                  *)
RECURSIVE Relax(_, _, _, _)
Relax(w, d, children, k) ==
  IF k > Len(children) THEN w
  ELSE LET child == children[k]
           next == Max2(Get(w.depth, child, 0), d + 1)
           count == Get(w.incomingCount, child, 0) - 1
       IN Relax([queue |-> IF count <= 0 THEN Append(w.queue, child)
                           ELSE w.queue,
                 depth |-> Put(w.depth, child, next),
                 incomingCount |-> Put(w.incomingCount, child, count)],
                d, children, k + 1)

(* The while loop from queue position qIndex (counted from 1) on, steps    *)
(* iterations into it: the maps when it ends, or the word that it does not *)
(* within MaxLoopSteps iterations.                                         *)
RECURSIVE Drain(_, _, _, _, _)
Drain(ns, es, w, qIndex, steps) ==
  IF qIndex > Len(w.queue) THEN [ended |-> TRUE, depth |-> w.depth]
  ELSE IF steps >= MaxLoopSteps THEN [ended |-> FALSE, depth |-> w.depth]
  ELSE LET id == w.queue[qIndex]
           v == Relax(w, Get(w.depth, id, 0), Children(ns, es, id), 1)
       IN Drain(ns, es, v, qIndex + 1, steps + 1)

(* Lines 996-1025: the maps, the seeded queue and the loop. *)
Layering(ns, es) ==
  LET incomingCount == CountIncoming([id \in Range(IdsOf(ns)) |-> 0], es, 1)
      roots == IdsOf(SelectSeq(ns, LAMBDA n : Get(incomingCount, n.id, 0) = 0))
      queue == IF Len(roots) = 0 THEN <<ns[1].id>> ELSE roots
  IN Drain(ns, es,
           [queue |-> queue, depth |-> [id \in Range(queue) |-> 0],
            incomingCount |-> incomingCount], 1, 0)

(* A placement that leaves the bends of the edges as they are. *)
ArrangeKeepingBends(s, direction, depth) ==
  LET Layer(n) == Get(depth, n.id, 0)
      Item(k) == Cardinality({j \in 1..(k - 1) :
                                Layer(s.nodes[j]) = Layer(s.nodes[k])})
      placed == [k \in 1..Len(s.nodes) |->
                   IF direction = "vertical"
                     THEN [s.nodes[k] EXCEPT
                             !.x = originX + Item(k) * itemGap,
                             !.y = originY + Layer(s.nodes[k]) * layerGap]
                     ELSE [s.nodes[k] EXCEPT
                             !.x = originX + Layer(s.nodes[k]) * layerGap,
                             !.y = originY + Item(k) * itemGap]]
  IN commitHistory(MutateLive(s, placed, s.edges))

(* Lines 1026-1058 for the depth map the loop ended with. *)
Arrange(s, direction, depth) ==
  LET Layer(n) == Get(depth, n.id, 0)
      Item(k) == Cardinality({j \in 1..(k - 1) :
                                Layer(s.nodes[j]) = Layer(s.nodes[k])})
      placed == [k \in 1..Len(s.nodes) |->
                   IF direction = "vertical"
                     THEN [s.nodes[k] EXCEPT
                             !.x = originX + Item(k) * itemGap,
                             !.y = originY + Layer(s.nodes[k]) * layerGap]
                     ELSE [s.nodes[k] EXCEPT
                             !.x = originX + Layer(s.nodes[k]) * layerGap,
                             !.y = originY + Item(k) * itemGap]]
      straight == [k \in 1..Len(s.edges) |->
                     [key \in (DOMAIN s.edges[k]) \cup BendKeys |->
                        IF key \in BendKeys THEN Undefined
                        ELSE s.edges[k][key]]]
  IN commitHistory(MutateLive(s, placed, straight))

LaidOut(s, direction, layering) ==
  IF layering.ended THEN Arrange(s, direction, layering.depth)
  ELSE [s EXCEPT !.fault = NeverReturns]

(* A JSON text is kept as what it denotes: <<"malformed">> for a text that *)
(* JSON.parse rejects, <<"null">> for the text null, and <<"object", f>>   *)
(* for an object, f giving each property as <<"array", elements>> or as    *)
(* <<"number", n>>.                                                        *)

(* An export that writes the nodes only. *)
exportJsonNodesOnly(s) ==
  <<"object", [nodes |-> <<"array", JsonArray(s.nodes)>>,
               edges |-> <<"array", <<>> >>]>>

(* The text handed to the download: JSON.stringify leaves out the          *)
(* properties whose value is undefined.                                    *)
exportJson(s) ==
  <<"object", [nodes |-> <<"array", JsonArray(s.nodes)>>,
               edges |-> <<"array", JsonArray(s.edges)>>]>>

(* Array.isArray(parsed[key]) ? parsed[key] : [] *)
ArrayField(parsed, key) ==
  IF key \in DOMAIN parsed[2] /\ parsed[2][key][1] = "array"
    THEN parsed[2][key][2]
    ELSE <<>>

(* draw() throws a TypeError: drawNode and edgePath read a property of     *)
(* each element (ctx is set once the component is mounted).                *)
DrawThrows(s) ==
  \/ \E i \in 1..Len(s.nodes) : s.nodes[i] = Null
  \/ \E i \in 1..Len(s.edges) : s.edges[i] = Null

(* Lines 900-907 once the text has parsed to an object. *)
Imported(s, drawn) ==
  IF DrawThrows(drawn) THEN [drawn EXCEPT !.fault = NullInDiagram]
  ELSE commitHistory(drawn)

(* The onchange continuation after await file.text().  JSON.parse throws   *)
(* on a malformed text and parsed.nodes throws on null; the catch block    *)
(* only raises the alert.                                                  *)
importJson(s, text) ==
  IF text[1] \in {"malformed", "null"} THEN s
  ELSE Imported(s, ClearSelection(replaceDiagram(s, ArrayField(text, "nodes"),
                                                 ArrayField(text, "edges"))))

(* n(id, type, text, x, y) of loadTemplate; the texts and labels are       *)
(* strings in Chinese, for which the id and "no", "yes" stand.  An id is   *)
(* kept as a tuple, like the generated ones.                               *)
TemplateNode(id, type, x, y) ==
  [id |-> <<id>>, type |-> type, text |-> id, x |-> x, y |-> y,
   width |-> nodeSize(type).width, height |-> nodeSize(type).height]

(* label is <<>> where the literal has no label property. *)
TemplateEdge(id, sourceId, targetId, label) ==
  IF label = <<>>
    THEN [id |-> <<id>>, sourceId |-> <<sourceId>>, targetId |-> <<targetId>>]
    ELSE [id |-> <<id>>, sourceId |-> <<sourceId>>, targetId |-> <<targetId>>,
          label |-> label[1]]

Template(name) ==
  IF name = "login" THEN
      [nodes |-> <<TemplateNode("tmpl_start", "start", 180, 130),
                   TemplateNode("tmpl_input", "io", 180, 230),
                   TemplateNode("tmpl_validate", "decision", 180, 340),
                   TemplateNode("tmpl_error", "process", 390, 340),
                   TemplateNode("tmpl_success", "process", 180, 470),
                   TemplateNode("tmpl_end", "end", 180, 580)>>,
       edges |-> <<TemplateEdge("te_1", "tmpl_start", "tmpl_input", <<"">>),
                   TemplateEdge("te_2", "tmpl_input", "tmpl_validate", <<"">>),
                   TemplateEdge("te_3", "tmpl_validate", "tmpl_error", <<"no">>),
                   TemplateEdge("te_4", "tmpl_validate", "tmpl_success", <<"yes">>),
                   TemplateEdge("te_5", "tmpl_success", "tmpl_end", <<"">>)>>]
  ELSE IF name = "approval" THEN
      [nodes |-> <<TemplateNode("a_start", "start", 170, 120),
                   TemplateNode("a_leader", "decision", 170, 230),
                   TemplateNode("a_reject", "process", 380, 230),
                   TemplateNode("a_mgr", "decision", 170, 360),
                   TemplateNode("a_archive", "process", 170, 480),
                   TemplateNode("a_end", "end", 170, 580)>>,
       edges |-> <<TemplateEdge("ae1", "a_start", "a_leader", <<>>),
                   TemplateEdge("ae2", "a_leader", "a_reject", <<"no">>),
                   TemplateEdge("ae3", "a_leader", "a_mgr", <<"yes">>),
                   TemplateEdge("ae4", "a_mgr", "a_reject", <<"no">>),
                   TemplateEdge("ae5", "a_mgr", "a_archive", <<"yes">>),
                   TemplateEdge("ae6", "a_archive", "a_end", <<>>)>>]
  ELSE IF name = "leave" THEN
      [nodes |-> <<TemplateNode("l_start", "start", 170, 120),
                   TemplateNode("l_check", "decision", 170, 230),
                   TemplateNode("l_teacher", "process", 170, 350),
                   TemplateNode("l_college", "process", 390, 230),
                   TemplateNode("l_record", "process", 170, 480),
                   TemplateNode("l_end", "end", 170, 580)>>,
       edges |-> <<TemplateEdge("le1", "l_start", "l_check", <<>>),
                   TemplateEdge("le2", "l_check", "l_teacher", <<"no">>),
                   TemplateEdge("le3", "l_check", "l_college", <<"yes">>),
                   TemplateEdge("le4", "l_teacher", "l_record", <<>>),
                   TemplateEdge("le5", "l_college", "l_record", <<>>),
                   TemplateEdge("le6", "l_record", "l_end", <<>>)>>]
  ELSE
      [nodes |-> <<TemplateNode("t_start", "start", 190, 120),
                   TemplateNode("t_pick", "process", 190, 220),
                   TemplateNode("t_review", "decision", 190, 330),
                   TemplateNode("t_back", "process", 390, 330),
                   TemplateNode("t_open", "process", 190, 460),
                   TemplateNode("t_mid", "process", 190, 560),
                   TemplateNode("t_end", "end", 190, 660)>>,
       edges |-> <<TemplateEdge("te1", "t_start", "t_pick", <<>>),
                   TemplateEdge("te2", "t_pick", "t_review", <<>>),
                   TemplateEdge("te3", "t_review", "t_back", <<"no">>),
                   TemplateEdge("te4", "t_review", "t_open", <<"yes">>),
                   TemplateEdge("te5", "t_open", "t_mid", <<>>),
                   TemplateEdge("te6", "t_mid", "t_end", <<>>)>>]

(* window.confirm is asked only when there are nodes; confirmed is its     *)
(* answer.                                                                 *)
loadTemplate(s, name, confirmed) ==
  IF Len(s.nodes) > 0 /\ ~confirmed THEN s
  ELSE commitHistory(
         [ClearSelection(replaceDiagram(s, Template(name).nodes,
                                        Template(name).edges))
            EXCEPT !.pan = [x |-> 0, y |-> 0], !.scale = 100])

(* A zoom step that is not held to the bounds. *)
onWheelUnclamped(s, deltaY) ==
  [s EXCEPT !.scale = @ + (IF deltaY < 0 THEN WheelStep ELSE 0 - WheelStep)]

(* scale is kept in hundredths, which is what toFixed(2) rounds to. *)
onWheel(s, deltaY) ==
  [s EXCEPT !.scale =
     Max2(MinScale, Min2(MaxScale,
                         @ + (IF deltaY < 0 THEN WheelStep ELSE 0 - WheelStep)))]

getDiagramBounds(ns) ==
  IF Len(ns) = 0 THEN [minX |-> -400, minY |-> -300, maxX |-> 400, maxY |-> 300]
  ELSE LET Least(set) == CHOOSE m \in set : \A n \in set : m <= n
           Most(set) == CHOOSE m \in set : \A n \in set : n <= m
       IN [minX |-> Least({n.x - n.width \div 2 : n \in Range(ns)}) - 80,
           minY |-> Least({n.y - n.height \div 2 : n \in Range(ns)}) - 80,
           maxX |-> Most({n.x + n.width \div 2 : n \in Range(ns)}) + 80,
           maxY |-> Most({n.y + n.height \div 2 : n \in Range(ns)}) + 80]

(* The canvas element, sized by resizeCanvas to the space the page gives   *)
(* it.                                                                     *)
Canvas == [width |-> 800, height |-> 600]

(* Lines 221-231 for the bounds of the diagram.  The fitted scale is the   *)
(* smaller quotient rounded to hundredths; pan, a float in the code, is    *)
(* rounded to the unit.                                                    *)
CenterOn(s, fit, bounds) ==
  LET contentW == Max2(1, bounds.maxX - bounds.minX)
      contentH == Max2(1, bounds.maxY - bounds.minY)
      fitted == Max2(MinScale,
                     Min2(MaxScale, Min2(RDiv(90 * Canvas.width, contentW),
                                         RDiv(90 * Canvas.height, contentH))))
      zoom == IF fit THEN fitted ELSE s.scale
  IN [s EXCEPT !.scale = zoom,
               !.pan = [x |-> Canvas.width \div 2
                                - RDiv((bounds.minX + bounds.maxX) * zoom, 200),
                        y |-> Canvas.height \div 2
                                - RDiv((bounds.minY + bounds.maxY) * zoom, 200)]]

centerView(s, fit) == CenterOn(s, fit, getDiagramBounds(s.nodes))

autoLayout(s, direction) ==
  IF Len(s.nodes) = 0 THEN s
  ELSE LaidOut(s, direction, Layering(s.nodes, s.edges))


----------------------------------------------------------------------------
(* The editor as a state machine.  Besides the component's refs the state  *)
(* holds two history variables: events counts the events handled, and last *)
(* records the last event with its inputs and the state it was handled in. *)

(* Client points of the pointer events: two node sites and the point       *)
(* midway between them (the default bend of an edge joining them; empty    *)
(* canvas otherwise).                                                      *)
Clicks == {<<100, 100>>, <<300, 100>>, <<200, 100>>}

Tools == {"select", "connect"} \cup NodeKinds

Answers == {<<>>, <<"">>, <<"step">>}

(* alignSelected.  The two divisions are exact in the runs of the model:   *)
(* see SpecAlign.                                                          *)
Coord(n, axis) == IF axis = "x" THEN n.x ELSE n.y

Moved(n, axis, v) == IF axis = "x" THEN [n EXCEPT !.x = v] ELSE [n EXCEPT !.y = v]

Least(set) == CHOOSE m \in set : \A n \in set : m <= n

Most(set) == CHOOSE m \in set : \A n \in set : n <= m

(* The place of node i in [...selected].sort((a, b) => a.x - b.x), from 0: *)
(* the sort is stable.                                                     *)
Rank(ns, sel, axis, i) ==
  Cardinality({j \in sel :
                 \/ Coord(ns[j], axis) < Coord(ns[i], axis)
                 \/ Coord(ns[j], axis) = Coord(ns[i], axis) /\ j < i})

AlignTo(ns, sel, axis, v) ==
  [i \in 1..Len(ns) |-> IF i \in sel THEN Moved(ns[i], axis, v) ELSE ns[i]]

(* Every selected node taken to the largest coordinate. *)
AlignFar(ns, sel, axis) ==
  AlignTo(ns, sel, axis, Most({Coord(ns[i], axis) : i \in sel}))

AlignMin(ns, sel, axis) ==
  AlignTo(ns, sel, axis, Least({Coord(ns[i], axis) : i \in sel}))

AlignCentre(ns, sel, axis) ==
  AlignTo(ns, sel, axis,
          (Least({Coord(ns[i], axis) : i \in sel})
             + Most({Coord(ns[i], axis) : i \in sel})) \div 2)

(* The nodes spread with the gap of one node too many. *)
SpaceShort(ns, sel, axis) ==
  LET start == Least({Coord(ns[i], axis) : i \in sel})
      end == Most({Coord(ns[i], axis) : i \in sel})
      gap == (end - start) \div Cardinality(sel)
  IN [i \in 1..Len(ns) |->
        IF i \in sel
          THEN Moved(ns[i], axis, start + gap * Rank(ns, sel, axis, i))
          ELSE ns[i]]

Space(ns, sel, axis) ==
  LET start == Least({Coord(ns[i], axis) : i \in sel})
      end == Most({Coord(ns[i], axis) : i \in sel})
      gap == (end - start) \div (Cardinality(sel) - 1)
  IN [i \in 1..Len(ns) |->
        IF i \in sel
          THEN Moved(ns[i], axis, start + gap * Rank(ns, sel, axis, i))
          ELSE ns[i]]

AlignedBy(ns, sel, mode) ==
  IF mode = "left" THEN AlignMin(ns, sel, "x")
  ELSE IF mode = "hcenter" THEN AlignCentre(ns, sel, "x")
  ELSE IF mode = "top" THEN AlignMin(ns, sel, "y")
  ELSE IF mode = "vcenter" THEN AlignCentre(ns, sel, "y")
  ELSE IF mode = "hspace" THEN Space(ns, sel, "x")
  ELSE Space(ns, sel, "y")

alignSelected(s, mode) ==
  LET sel == {i \in 1..Len(s.nodes) : Includes(s.selectedNodeIds, s.nodes[i].id)}
  IN IF Len(s.selectedNodeIds) < 2 \/ Cardinality(sel) < 2 THEN s
     ELSE IF mode \in {"hspace", "vspace"} /\ Cardinality(sel) < 3 THEN s
     ELSE commitHistory(MutateLive(s, AlignedBy(s.nodes, sel, mode), s.edges))

(* Diagrams of the project the editor is opened on: an empty one, and one  *)
(* stored before edges had style fields.                                   *)
StoredNode(k, type, x, y) ==
  [id |-> <<"stored", k>>, type |-> type, text |-> defaultText(type),
   x |-> x, y |-> y, width |-> nodeSize(type).width,
   height |-> nodeSize(type).height]

EmptyDiagram == [nodes |-> <<>>, edges |-> <<>>]

StoredDiagram ==
  [nodes |-> <<StoredNode(1, "start", 100, 100),
               StoredNode(2, "process", 300, 100)>>,
   edges |-> <<[id |-> <<"stored", 3>>, sourceId |-> <<"stored", 1>>,
                targetId |-> <<"stored", 2>>, label |-> ""]>>]

(* The refs after setup: the watcher has run once (immediate), its         *)
(* nextTick callback is pending.                                           *)
Mounted(d) ==
  [nodes |-> d.nodes, edges |-> d.edges, selectedTool |-> "select",
   selectedNodeId |-> NoId, selectedNodeIds |-> <<>>, selectedEdgeId |-> NoId,
   connectFromId |-> NoId, draggingNodeId |-> NoId,
   draggingBendEdgeId |-> NoId, draggingMoved |-> FALSE,
   draggingGroupIds |-> <<>>, groupDragStart |-> <<>>,
   dragStartPoint |-> [x |-> 0, y |-> 0], panning |-> FALSE,
   panStart |-> [x |-> 0, y |-> 0], pan |-> [x |-> 0, y |-> 0], scale |-> 100,
   marquee |-> [active |-> FALSE, startX |-> 0, startY |-> 0, endX |-> 0,
                endY |-> 0, append |-> FALSE],
   history |-> <<>>, historyIndex |-> -1, historyReady |-> FALSE,
   clipboardData |-> <<>>, pasteCount |-> 0, nextId |-> 1,
   resetPending |-> TRUE, fault |-> NoFault]

nextTick(s) == [resetHistory(s) EXCEPT !.resetPending = FALSE]

selectTool(s, tool) == [s EXCEPT !.selectedTool = tool]

Becomes(t) ==
  \E s \in {t} :
    /\ nodes' = s.nodes
    /\ edges' = s.edges
    /\ selectedTool' = s.selectedTool
    /\ selectedNodeId' = s.selectedNodeId
    /\ selectedNodeIds' = s.selectedNodeIds
    /\ selectedEdgeId' = s.selectedEdgeId
    /\ connectFromId' = s.connectFromId
    /\ draggingNodeId' = s.draggingNodeId
    /\ draggingBendEdgeId' = s.draggingBendEdgeId
    /\ draggingMoved' = s.draggingMoved
    /\ draggingGroupIds' = s.draggingGroupIds
    /\ groupDragStart' = s.groupDragStart
    /\ dragStartPoint' = s.dragStartPoint
    /\ panning' = s.panning
    /\ panStart' = s.panStart
    /\ pan' = s.pan
    /\ scale' = s.scale
    /\ marquee' = s.marquee
    /\ history' = s.history
    /\ historyIndex' = s.historyIndex
    /\ historyReady' = s.historyReady
    /\ clipboardData' = s.clipboardData
    /\ pasteCount' = s.pasteCount
    /\ nextId' = s.nextId
    /\ resetPending' = s.resetPending
    /\ fault' = s.fault

(* The editor is in state t. *)
Is(t) ==
  \E s \in {t} :
    /\ nodes = s.nodes
    /\ edges = s.edges
    /\ selectedTool = s.selectedTool
    /\ selectedNodeId = s.selectedNodeId
    /\ selectedNodeIds = s.selectedNodeIds
    /\ selectedEdgeId = s.selectedEdgeId
    /\ connectFromId = s.connectFromId
    /\ draggingNodeId = s.draggingNodeId
    /\ draggingBendEdgeId = s.draggingBendEdgeId
    /\ draggingMoved = s.draggingMoved
    /\ draggingGroupIds = s.draggingGroupIds
    /\ groupDragStart = s.groupDragStart
    /\ dragStartPoint = s.dragStartPoint
    /\ panning = s.panning
    /\ panStart = s.panStart
    /\ pan = s.pan
    /\ scale = s.scale
    /\ marquee = s.marquee
    /\ history = s.history
    /\ historyIndex = s.historyIndex
    /\ historyReady = s.historyReady
    /\ clipboardData = s.clipboardData
    /\ pasteCount = s.pasteCount
    /\ nextId = s.nextId
    /\ resetPending = s.resetPending
    /\ fault = s.fault

(* The editor is in state t, done events into the budget. *)
StartsAt(t, done) ==
  /\ Is(t)
  /\ events = done
  /\ last = [name |-> "none"]

StartsAs(t) == StartsAt(t, 0)

(* An event is handled: the handler's result, and what it was. *)
Handle(t, what) ==
  /\ events < MaxEvents
  /\ fault = NoFault
  /\ Becomes(t)
  /\ events' = events + 1
  /\ last' = what @@ [pre |-> St]

(* The watcher's nextTick callback: it runs before any user event. *)
NextTick ==
  /\ resetPending
  /\ Handle(nextTick(St), [name |-> "nextTick"])

SelectTool(tool) ==
  /\ ~resetPending
  /\ Handle(selectTool(St, tool), [name |-> "tool", tool |-> tool])

MouseDown(c, shiftKey) ==
  /\ ~resetPending
  /\ Handle(onMouseDown(St, c[1], c[2], shiftKey),
            [name |-> "mouseDown", x |-> c[1], y |-> c[2], shift |-> shiftKey])

MouseMove(c) ==
  /\ ~resetPending
  /\ Handle(onMouseMove(St, c[1], c[2]),
            [name |-> "mouseMove", x |-> c[1], y |-> c[2]])

MouseUp ==
  /\ ~resetPending
  /\ Handle(onMouseUp(St), [name |-> "mouseUp"])

(* The canvas binds mouseleave to the handler of mouseup. *)
MouseLeave ==
  /\ ~resetPending
  /\ Handle(onMouseUp(St), [name |-> "mouseLeave"])

DoubleClick(answer) ==
  /\ ~resetPending
  /\ Handle(onDoubleClick(St, answer),
            [name |-> "doubleClick", answer |-> answer])

Undo ==
  /\ ~resetPending
  /\ Handle(undo(St), [name |-> "undo"])

Redo ==
  /\ ~resetPending
  /\ Handle(redo(St), [name |-> "redo"])

SelectAll ==
  /\ ~resetPending
  /\ Handle(selectAll(St), [name |-> "selectAll"])

Copy ==
  /\ ~resetPending
  /\ Handle(copySelected(St), [name |-> "copy"])

Paste ==
  /\ ~resetPending
  /\ Handle(pasteClipboard(St), [name |-> "paste"])

Delete ==
  /\ ~resetPending
  /\ Handle(deleteSelected(St), [name |-> "delete"])

Import(text) ==
  /\ ~resetPending
  /\ Handle(importJson(St, text), [name |-> "import", text |-> text])

Wheel(deltaY) ==
  /\ ~resetPending
  /\ Handle(onWheel(St, deltaY), [name |-> "wheel", deltaY |-> deltaY])

CenterView(fit) ==
  /\ ~resetPending
  /\ Handle(centerView(St, fit), [name |-> "centerView", fit |-> fit])

LoadTemplate(name, confirmed) ==
  /\ ~resetPending
  /\ confirmed \/ Len(nodes) > 0
  /\ Handle(loadTemplate(St, name, confirmed),
            [name |-> "loadTemplate", template |-> name,
             confirmed |-> confirmed])

AutoLayout(direction) ==
  /\ ~resetPending
  /\ Handle(autoLayout(St, direction),
            [name |-> "autoLayout", direction |-> direction])

Next ==
  \/ NextTick
  \/ \E tool \in Tools : SelectTool(tool)
  \/ \E c \in Clicks, shiftKey \in BOOLEAN : MouseDown(c, shiftKey)
  \/ \E c \in Clicks : MouseMove(c)
  \/ MouseUp
  \/ \E answer \in Answers : DoubleClick(answer)
  \/ Undo
  \/ Redo
  \/ SelectAll
  \/ Copy
  \/ Paste
  \/ Delete

(* States the editor is in after the events named: an empty project in     *)
(* which a start node, a process node and an edge between them have been   *)
(* drawn, the same after two undos, and the same after a paste.            *)
Drawn ==
  LET s1 == nextTick(Mounted(EmptyDiagram))
      s2 == onMouseDown(selectTool(s1, "start"), 100, 100, FALSE)
      s3 == onMouseDown(selectTool(s2, "process"), 300, 100, FALSE)
      s4 == onMouseDown(selectTool(s3, "connect"), 100, 100, FALSE)
  IN onMouseDown(s4, 300, 100, FALSE)

Undone == undo(undo(Drawn))

(* The drawing, selected whole, copied and pasted once. *)
Pasted == pasteClipboard(copySelected(selectAll(Drawn)))

(* A single node retyped n times, by turns to "a" and to "b": each edit   *)
(* is one commit.                                                          *)
(* (An edit that commits nothing ends the series.)                         *)
RECURSIVE Retyped(_, _)
Retyped(s, n) ==
  LET t == onDoubleClick(s, IF n % 2 = 0 THEN <<"a">> ELSE <<"b">>)
  IN IF n = 0 THEN s
     ELSE IF t.historyIndex = s.historyIndex THEN t
     ELSE Retyped(t, n - 1)

Placed ==
  onMouseDown(selectTool(nextTick(Mounted(EmptyDiagram)), "process"),
              100, 100, FALSE)

(* The history one commit short of the cap, at the cap, and at the cap     *)
(* after one undo.                                                         *)
NearlyFull == Retyped(Placed, HistoryCap - 3)

Full == Retyped(Placed, HistoryCap - 2)

FullUndone == undo(Full)

Init ==
  \/ \E d \in {EmptyDiagram, StoredDiagram} : StartsAs(Mounted(d))
  \/ StartsAs(Drawn)
  \/ StartsAs(Undone)
  \/ StartsAs(Pasted)
  \/ StartsAs(NearlyFull)
  \/ StartsAs(Full)
  \/ StartsAs(FullUndone)

Spec == Init /\ [][Next]_vars

(* The editor with every toolbar command.  Its runs start one event into   *)
(* the budget, in the states below.                                        *)

(* The handler an event runs, applied to the state s. *)
Step(s, e) ==
  IF e.name = "tool" THEN selectTool(s, e.tool)
  ELSE IF e.name = "mouseDown" THEN onMouseDown(s, e.x, e.y, e.shift)
  ELSE IF e.name = "mouseMove" THEN onMouseMove(s, e.x, e.y)
  ELSE IF e.name = "mouseUp" THEN onMouseUp(s)
  ELSE IF e.name = "selectAll" THEN selectAll(s)
  ELSE IF e.name = "copy" THEN copySelected(s)
  ELSE IF e.name = "paste" THEN pasteClipboard(s)
  ELSE IF e.name = "wheel" THEN onWheel(s, e.deltaY)
  ELSE IF e.name = "delete" THEN deleteSelected(s)
  ELSE IF e.name = "undo" THEN undo(s)
  ELSE IF e.name = "activateProject" THEN activateProject(s, e.flow)
  ELSE IF e.name = "nextTick" THEN nextTick(s)
  ELSE s

(* The state after the events of a script, one after the other. *)
RECURSIVE Played(_, _)
Played(s, script) ==
  IF script = <<>> THEN s
  ELSE CHOOSE r \in {Played(t, Tail(script)) : t \in {Step(s, Head(script))}} :
         TRUE

Tool(tool) == [name |-> "tool", tool |-> tool]

Down(x, y) == [name |-> "mouseDown", x |-> x, y |-> y, shift |-> FALSE]

ShiftDown(x, y) == [name |-> "mouseDown", x |-> x, y |-> y, shift |-> TRUE]

Move(x, y) == [name |-> "mouseMove", x |-> x, y |-> y]

Up == [name |-> "mouseUp"]

(* The drawing with the bend handle of its edge dragged to (200, 300). *)
Bent ==
  Played(Drawn, <<Tool("select"), Down(200, 100), Move(200, 300), Up>>)

(* The drawing selected whole and copied, and the same pasted once. *)
Copied == Played(Bent, <<[name |-> "selectAll"], [name |-> "copy"]>>)

BentPasted == Played(Copied, <<[name |-> "paste"]>>)

(* The drawing with the bent edge, and under it an end node and a decision *)
(* node.                                                                   *)
ThreeNodes == Played(Bent, <<Tool("end"), Down(300, 300)>>)

FourNodes == Played(ThreeNodes, <<Tool("decision"), Down(100, 300)>>)

(* The same with the start node selected and a marquee begun at (400, 268) *)
(* with Shift held: the height of the end node's upper side.               *)
Marqueeing == Played(FourNodes, <<Down(100, 100), Up, ShiftDown(400, 268)>>)

(* The drawing with a second edge, drawn back from the process node to    *)
(* the start node by two connect clicks.                                   *)
Cyclic == Played(Drawn, <<Down(300, 100), Down(100, 100)>>)

(* The four nodes, the start node joined to the process node (by the bent *)
(* edge) and to the end node, the process node to the end node, the        *)
(* decision node to nothing.                                               *)
StartToEnd ==
  Played(FourNodes, <<Tool("connect"), Down(100, 100), Down(300, 300)>>)

Diamond == Played(StartToEnd, <<Down(300, 100), Down(300, 300)>>)

(* Files offered to the import: the export of the diagram as it is, the    *)
(* export of another diagram, a text that is not JSON, the text null, an   *)
(* object whose nodes are no array and whose edges are missing, and an     *)
(* object whose nodes array holds null.                                    *)
Files(s) ==
  {exportJson(s), exportJson(Mounted(StoredDiagram)), <<"malformed">>,
   <<"null">>, <<"object", [nodes |-> <<"number", 7>>]>>,
   <<"object", [nodes |-> <<"array", <<Null>> >>,
                edges |-> <<"array", <<>> >>]>>}

(* The drawing with its edge selected by a click on the bend handle. *)
EdgePicked == Played(Drawn, <<Tool("select"), Down(200, 100), Up>>)

(* The drawing zoomed in and zoomed out as far as the wheel goes. *)
Wheeled(s, deltaY, n) ==
  Played(s, [i \in 1..n |-> [name |-> "wheel", deltaY |-> deltaY]])

ZoomedIn == Wheeled(Bent, -100, 10)

ZoomedOut == Wheeled(Bent, 100, 5)

TemplateNames == {"login", "approval", "leave", "thesis"}

Directions == {"vertical", "horizontal"}

NextAll ==
  \/ Next
  \/ \E direction \in Directions : AutoLayout(direction)
  \/ \E text \in Files(St) : Import(text)
  \/ \E deltaY \in {-100, 100} : Wheel(deltaY)
  \/ \E fit \in BOOLEAN : CenterView(fit)
  \/ \E name \in TemplateNames, confirmed \in BOOLEAN :
       LoadTemplate(name, confirmed)

InitAll ==
  \/ StartsAt(Mounted(StoredDiagram), 1)
  \/ StartsAt(Drawn, 1)
  \/ StartsAt(Bent, 1)
  \/ StartsAt(Copied, 1)
  \/ StartsAt(BentPasted, 1)
  \/ StartsAt(Marqueeing, 1)
  \/ StartsAt(Cyclic, 1)
  \/ StartsAt(Diamond, 1)
  \/ StartsAt(Undone, 1)
  \/ StartsAt(EdgePicked, 1)
  \/ StartsAt(ZoomedIn, 1)
  \/ StartsAt(ZoomedOut, 1)

SpecAll == InitAll /\ [][NextAll]_vars

(* The pointer gestures by themselves.  Runs start one event into the      *)
(* budget: with a button held down on a node, on a node of a selected      *)
(* group, on a bend handle or on the empty canvas, with a marquee open,    *)
(* with a node placed over a bend handle, or with nothing held.            *)
NodePressed == Played(Bent, <<Down(100, 100)>>)

GroupPressed == Played(BentPasted, <<Down(100, 100)>>)

BendPressed == Played(Bent, <<Down(200, 300)>>)

Panning == Played(Bent, <<Down(100, 300)>>)

Covered == Played(Drawn, <<Tool("process"), Down(200, 100)>>)

(* Where the pointer goes down or moves to: the clicks, a point on the     *)
(* left side of the process node where the edge ends, and a point a few    *)
(* units from the start node's centre.                                     *)
Presses == Clicks \cup {<<230, 100>>, <<104, 97>>}

NextPointer ==
  \/ \E tool \in Tools : SelectTool(tool)
  \/ \E c \in Presses, shiftKey \in BOOLEAN : MouseDown(c, shiftKey)
  \/ \E c \in Presses : MouseMove(c)
  \/ MouseUp
  \/ MouseLeave

InitPointer ==
  \/ StartsAt(Bent, 1)
  \/ StartsAt(BentPasted, 1)
  \/ StartsAt(NodePressed, 1)
  \/ StartsAt(GroupPressed, 1)
  \/ StartsAt(BendPressed, 1)
  \/ StartsAt(Panning, 1)
  \/ StartsAt(Marqueeing, 1)
  \/ StartsAt(Covered, 1)

SpecPointer == InitPointer /\ [][NextPointer]_vars

(* The node drag by itself, over diagrams whose nodes lie at tenths of a   *)
(* unit, as nodes placed under a zoom or read from a file do.  Coordinates *)
(* are counted in tenths.  The state is the one of GroupPressed, node i    *)
(* shifted by off[i] tenths, as the editor opened on that diagram has it   *)
(* once the pasted pair is selected and the button is down on its first    *)
(* node.                                                                   *)
FineEdge(e, k) ==
  IF "bendX" \in DOMAIN e THEN [e EXCEPT !.bendX = k * @, !.bendY = k * @]
  ELSE e

FineNode(n, k, d) ==
  [n EXCEPT !.x = k * @ + d[1], !.y = k * @ + d[2], !.width = k * @,
            !.height = k * @]

(* The state s with its coordinates counted in steps of 1 / k and node i   *)
(* shifted by off[i] steps; history holds the diagram so shifted alone.    *)
Fine(s, k, off) ==
  LET ns == [i \in 1..Len(s.nodes) |-> FineNode(s.nodes[i], k, off[i])]
      es == [i \in 1..Len(s.edges) |-> FineEdge(s.edges[i], k)]
  IN [s EXCEPT !.nodes = ns, !.edges = es,
               !.groupDragStart =
                  [g \in DOMAIN @ |-> [x |-> ns[FindById(ns, g)].x,
                                       y |-> ns[FindById(ns, g)].y]],
               !.dragStartPoint = [x |-> k * @.x, y |-> k * @.y],
               !.history = <<[nodes |-> ns, edges |-> es, shared |-> FALSE]>>,
               !.historyIndex = 0, !.clipboardData = <<>>]

InTenths(s, off) == Fine(s, 10, off)

Offsets == {<<0, 0>>, <<3, 0>>, <<6, 3>>}

(* A pointer-move of the drag, the pointer over the canvas point c. *)
DragMove(c) ==
  /\ draggingNodeId # NoId
  /\ Handle(DragNodes(10, St, [x |-> 10 * c[1], y |-> 10 * c[2]]),
            [name |-> "mouseMove", x |-> c[1], y |-> c[2]])

NextDrag == \E c \in Presses : DragMove(c)

InitDrag ==
  \E off \in [1..Len(GroupPressed.nodes) -> Offsets] :
    StartsAt(InTenths(GroupPressed, off), 1)

SpecDrag == InitDrag /\ [][NextDrag]_vars

(* alignSelected by itself.  Its midpoints and gaps are halves and thirds  *)
(* of whole numbers, so coordinates are counted in steps of 1 / Parts, a   *)
(* step fine enough to hold every result of a run exactly.  A run starts   *)
(* from four nodes with any of them selected, in diagram order or in the   *)
(* reverse order.  The toolbar disables the buttons below two (for the     *)
(* spacing buttons, three) selected ids; the handler is applied all the    *)
(* same, so that its own tests are met.                                    *)
Parts == 6 * 6 * 6 * 6

AlignModes == {"left", "hcenter", "top", "vcenter", "hspace", "vspace"}

Align(mode) ==
  /\ ~resetPending
  /\ Handle(alignSelected(St, mode), [name |-> "align", mode |-> mode])

Reversed(seq) == [i \in 1..Len(seq) |-> seq[Len(seq) + 1 - i]]

(* The ids of the nodes of s at the places in picked, in diagram order. *)
Picked(s, picked) ==
  IdsOf(SelectSeq([i \in 1..Len(s.nodes) |-> [id |-> s.nodes[i].id, at |-> i]],
                  LAMBDA n : n.at \in picked))

Selecting(s, ids) ==
  Fine(setNodeSelection(s, ids), Parts, [i \in 1..Len(s.nodes) |-> <<0, 0>>])

NextAlign ==
  \/ \E mode \in AlignModes : Align(mode)
  \/ Undo
  \/ Redo

InitAlign ==
  \E s \in {FourNodes, BentPasted}, picked \in SUBSET (1..4) :
    \/ StartsAt(Selecting(s, Picked(s, picked)), 1)
    \/ StartsAt(Selecting(s, Reversed(Picked(s, picked))), 1)

SpecAlign == InitAlign /\ [][NextAlign]_vars

(* The editor with every command, the clear button, the alignment         *)
(* buttons, the pointer leaving the canvas and a switch of the active      *)
(* project.  Runs start one event into the budget: in states of SpecAll,   *)
(* with the stored project opened, with the first click of a connection    *)
(* made, with the history at its cap and with a project switch whose       *)
(* nextTick callback is pending.                                           *)
ActivateProject(d) ==
  /\ ~resetPending
  /\ Handle(activateProject(St, d), [name |-> "activateProject", flow |-> d])

ClearFlow(confirmed) ==
  /\ ~resetPending
  /\ Handle(clearFlow(St, confirmed),
            [name |-> "clearFlow", confirmed |-> confirmed])

ConnectArmed == Played(Drawn, <<Tool("connect"), Down(100, 100)>>)

(* The stored project opened, its history initialized. *)
Opened == Played(Mounted(StoredDiagram), <<[name |-> "nextTick"]>>)

(* A point on the edge between the two nodes, off its bend handle. *)
OnEdge == <<175, 100>>

Switched ==
  Played(Drawn, <<[name |-> "activateProject", flow |-> StoredDiagram]>>)

NextSession ==
  \/ NextAll
  \/ \E shiftKey \in BOOLEAN : MouseDown(OnEdge, shiftKey)
  \/ MouseLeave
  \/ \E mode \in AlignModes : Align(mode)
  \/ \E confirmed \in BOOLEAN : ClearFlow(confirmed)
  \/ \E d \in {EmptyDiagram, StoredDiagram} : ActivateProject(d)

SessionSeeds ==
  {Opened, Switched, Drawn, Undone, Copied, BentPasted,
   EdgePicked, Marqueeing, ConnectArmed, Full}

InitSession == \E t \in SessionSeeds : StartsAt(t, 1)

SpecSession == InitSession /\ [][NextSession]_vars

(* The keys and the pointer during a drag.  Runs start one event into the  *)
(* budget, with the pointer down on a node, on a node of a selected group  *)
(* or on a bend handle, or with what was pressed dragged once and then     *)
(* deleted with the Delete key.                                            *)
NodeGone ==
  Played(NodePressed, <<Move(300, 100), [name |-> "delete"]>>)

GroupGone ==
  Played(GroupPressed, <<Move(300, 100), [name |-> "delete"]>>)

BendGone ==
  Played(BendPressed, <<Move(200, 100), [name |-> "delete"]>>)

StaleSeeds ==
  {NodePressed, GroupPressed, BendPressed, NodeGone, GroupGone, BendGone}

NextStale ==
  \/ \E c \in Presses, shiftKey \in BOOLEAN : MouseDown(c, shiftKey)
  \/ \E c \in Presses : MouseMove(c)
  \/ MouseUp
  \/ MouseLeave
  \/ Delete
  \/ SelectAll
  \/ Undo
  \/ Redo

InitStale == \E t \in StaleSeeds : StartsAt(t, 1)

SpecStale == InitStale /\ [][NextStale]_vars

(* nodeBoundaryPoint by itself: a node of any kind at one of a few         *)
(* centres, and a point to aim at: the centre itself, a point due right,   *)
(* left, below or above it, near or far, or a point off the axes.          *)
Centres == {<<100, 100>>, <<300, 250>>, <<-60, 40>>, <<0, 0>>}

Aims ==
  {<<0, 0>>, <<1, 0>>, <<200, 0>>, <<-1, 0>>, <<-200, 0>>, <<0, 1>>,
   <<0, 200>>, <<0, -1>>, <<0, -200>>, <<200, 100>>, <<-30, 40>>}

InitBoundary ==
  \E type \in NodeKinds, c \in Centres, aim \in Aims :
    /\ Is(Mounted(EmptyDiagram))
    /\ events = 0
    /\ last = [name |-> "aim", node |-> StoredNode(1, type, c[1], c[2]),
               towardX |-> c[1] + aim[1], towardY |-> c[2] + aim[2]]

BoundaryPoint ==
  /\ last.name = "aim"
  /\ last' = [last EXCEPT !.name = "nodeBoundaryPoint"] @@
              [point |-> nodeBoundaryPoint(last.node, last.towardX,
                                           last.towardY)]
  /\ events' = events + 1
  /\ UNCHANGED <<nodes, edges, selectedTool, selectedNodeId, selectedNodeIds,
                 selectedEdgeId, connectFromId, draggingNodeId,
                 draggingBendEdgeId, draggingMoved, draggingGroupIds,
                 groupDragStart, dragStartPoint, panning, panStart, pan, scale,
                 marquee, history, historyIndex, historyReady, clipboardData,
                 pasteCount, nextId, resetPending, fault>>

NextBoundary == BoundaryPoint

SpecBoundary == InitBoundary /\ [][NextBoundary]_vars

----------------------------------------------------------------------------
(* Properties.  They are stated over the last event handled: last.pre is   *)
(* the state it was handled in, the variables are the state it left.       *)

Live(s) == [nodes |-> s.nodes, edges |-> s.edges]

(* The diagram as data: deep equality compares what JSON carries. *)
Serialized(s) == [nodes |-> JsonArray(s.nodes), edges |-> JsonArray(s.edges)]

Stored(snapshot) == [nodes |-> snapshot.nodes, edges |-> snapshot.edges]

InSync(s) ==
  /\ s.historyIndex >= 0
  /\ Serialized(s) = Stored(s.history[s.historyIndex + 1])

SelectionEmpty ==
  /\ selectedNodeId = NoId
  /\ selectedNodeIds = <<>>
  /\ selectedEdgeId = NoId

Contents(h) == [i \in 1..Len(h) |-> Stored(h[i])]

(* The last event was a handler that committed: only undo, redo and the    *)
(* reset change history or historyIndex otherwise.                         *)
Committing ==
  /\ last.name \notin {"none", "nextTick", "undo", "redo"}
  /\ (history # last.pre.history \/ historyIndex # last.pre.historyIndex)

(* The last event committed exactly once, and after all its changes. *)
CommittedOnce ==
  LET kept == SubSeq(Contents(last.pre.history), 1, last.pre.historyIndex + 1)
      pushed == Append(kept, Serialized(St))
  IN /\ Contents(history) =
          IF Len(pushed) > HistoryCap THEN Tail(pushed) ELSE pushed
     /\ historyIndex = Len(history) - 1

(* C1: an undo taken at historyIndex > 0 in a state whose changes are all  *)
(* committed (the live diagram equals the current snapshot), followed at   *)
(* once by a redo, leaves the live nodes and edges deep-equal to what they *)
(* were just before the undo.                                              *)
C1_UndoThenRedoRestores ==
  (last.name = "undo" /\ canUndo(last.pre) /\ InSync(last.pre))
    => Live(redo(St)) = Serialized(last.pre)

C1_Witness ==
  /\ last.name = "undo"
  /\ canUndo(last.pre)
  /\ InSync(last.pre)
  /\ Live(St) # Live(last.pre)
  /\ \E i \in 1..Len(last.pre.edges) :
       /\ Has(last.pre.edges[i], "bendX")
       /\ last.pre.edges[i].bendX = Undefined
  /\ Live(redo(St)) = Serialized(last.pre)

(* C2: an undo at historyIndex > 0 lowers historyIndex by one, a redo with *)
(* a later snapshot stored raises it by one; after either the live nodes   *)
(* and edges equal history[historyIndex] and selectedNodeId,               *)
(* selectedNodeIds, selectedEdgeId and connectFromId are empty.            *)
C2_UndoRedoStep ==
  /\ (last.name = "undo" /\ last.pre.historyIndex > 0)
       => /\ historyIndex = last.pre.historyIndex - 1
          /\ Live(St) = Stored(history[historyIndex + 1])
          /\ SelectionEmpty
          /\ connectFromId = NoId
  /\ (last.name = "redo"
        /\ last.pre.historyIndex < Len(last.pre.history) - 1)
       => /\ historyIndex = last.pre.historyIndex + 1
          /\ Live(St) = Stored(history[historyIndex + 1])
          /\ SelectionEmpty
          /\ connectFromId = NoId

C2_Witness ==
  /\ last.name = "redo"
  /\ last.pre.historyIndex < Len(last.pre.history) - 1
  /\ last.pre.connectFromId # NoId
  /\ last.pre.selectedNodeIds # <<>>
  /\ historyIndex = last.pre.historyIndex + 1
  /\ Live(St) # Live(last.pre)

(* C3 (as amended): the history never holds more than 80 snapshots; a     *)
(* commit made when 80 snapshots are stored and historyIndex is at the     *)
(* last of them drops the oldest snapshot, keeps the others in order, and  *)
(* stores the new snapshot last with historyIndex at it.                   *)
C3_HistoryCapped ==
  /\ Len(history) <= HistoryCap
  /\ (Committing /\ Len(last.pre.history) = HistoryCap
        /\ last.pre.historyIndex = HistoryCap - 1)
       => /\ Contents(history) =
               Append(Tail(Contents(last.pre.history)), Serialized(St))
          /\ historyIndex = HistoryCap - 1

C3_Witness ==
  /\ Committing
  /\ Len(last.pre.history) = HistoryCap
  /\ last.pre.historyIndex = HistoryCap - 1
  /\ Len(history) = HistoryCap
  /\ Stored(history[1]) = Stored(last.pre.history[2])
  /\ Stored(history[1]) # Stored(last.pre.history[1])
  /\ Stored(history[HistoryCap]) = Serialized(St)

(* C3 as stated: the same of every commit made when 80 snapshots are       *)
(* stored, wherever historyIndex is.                                       *)
C3_AsStated ==
  /\ Len(history) <= HistoryCap
  /\ (Committing /\ Len(last.pre.history) = HistoryCap)
       => /\ Contents(history) =
               Append(Tail(Contents(last.pre.history)), Serialized(St))
          /\ historyIndex = HistoryCap - 1

(* C4: a commit made when historyIndex is not at the last snapshot keeps  *)
(* the snapshots up to historyIndex, drops every later one, appends the    *)
(* new snapshot and puts historyIndex at it; a redo right after it changes *)
(* nothing, and no undo or redo can reach a dropped snapshot, the history  *)
(* holding none of them.                                                   *)
C4_CommitTruncates ==
  (Committing /\ last.pre.historyIndex < Len(last.pre.history) - 1)
    => /\ Len(history) = last.pre.historyIndex + 2
       /\ \A i \in 1..(last.pre.historyIndex + 1) :
            Stored(history[i]) = Stored(last.pre.history[i])
       /\ Stored(history[Len(history)]) = Serialized(St)
       /\ historyIndex = Len(history) - 1
       /\ ~canRedo(St)
       /\ redo(St) = St

C4_Witness ==
  /\ Committing
  /\ last.pre.historyIndex < Len(last.pre.history) - 2
  /\ Len(history) < Len(last.pre.history)
  /\ historyIndex = Len(history) - 1
  /\ Stored(history[Len(history)])
       # Stored(last.pre.history[Len(history)])
  /\ redo(St) = St

(* C5: undo at historyIndex 0, redo at the last snapshot, paste with the   *)
(* clipboard unset or empty, and delete with no node and no edge selected  *)
(* leave nodes, edges, the selection, history, historyIndex and pasteCount *)
(* as they were.                                                           *)
C5_NoOps ==
  ( \/ last.name = "undo" /\ last.pre.historyIndex = 0
    \/ last.name = "redo"
         /\ last.pre.historyIndex = Len(last.pre.history) - 1
    \/ last.name = "paste"
         /\ (\/ last.pre.clipboardData = <<>>
             \/ Len(last.pre.clipboardData[1].nodes) = 0)
    \/ last.name = "delete"
         /\ Len(last.pre.selectedNodeIds) = 0
         /\ selectedEdge(last.pre) = 0 )
    => /\ nodes = last.pre.nodes
       /\ edges = last.pre.edges
       /\ selectedNodeId = last.pre.selectedNodeId
       /\ selectedNodeIds = last.pre.selectedNodeIds
       /\ selectedEdgeId = last.pre.selectedEdgeId
       /\ history = last.pre.history
       /\ historyIndex = last.pre.historyIndex
       /\ pasteCount = last.pre.pasteCount

C5_Witness ==
  /\ last.name = "undo"
  /\ last.pre.historyIndex = 0
  /\ ~InSync(last.pre)
  /\ last.pre.selectedEdgeId # NoId
  /\ nodes = last.pre.nodes
  /\ edges = last.pre.edges
  /\ selectedEdgeId = last.pre.selectedEdgeId

LastPoint == toCanvasPoint(last.pre, last.x, last.y)

LastHit == getNodeAt(last.pre.nodes, LastPoint.x, LastPoint.y)

LastHitId == last.pre.nodes[LastHit].id

(* C7: delete with nodes selected removes exactly the selected nodes and   *)
(* the edges whose source or target is selected, keeps the others in       *)
(* order, empties the node selection and commits once; with only an edge   *)
(* selected it removes that edge alone, clears the edge selection and      *)
(* commits once.                                                           *)
C7_DeleteSelected ==
  /\ (last.name = "delete" /\ Len(last.pre.selectedNodeIds) > 0)
       => /\ nodes = SelectSeq(last.pre.nodes,
                     LAMBDA n : ~Includes(last.pre.selectedNodeIds, n.id))
          /\ edges = SelectSeq(last.pre.edges,
                     LAMBDA e :
                       /\ ~Includes(last.pre.selectedNodeIds, e.sourceId)
                       /\ ~Includes(last.pre.selectedNodeIds, e.targetId))
          /\ selectedNodeIds = <<>>
          /\ selectedNodeId = NoId
          /\ CommittedOnce
  /\ (last.name = "delete" /\ Len(last.pre.selectedNodeIds) = 0
        /\ selectedEdge(last.pre) # 0)
       => /\ nodes = last.pre.nodes
          /\ edges = SubSeq(last.pre.edges, 1, selectedEdge(last.pre) - 1)
                       \o SubSeq(last.pre.edges, selectedEdge(last.pre) + 1,
                                 Len(last.pre.edges))
          /\ selectedEdgeId = NoId
          /\ CommittedOnce

C7_Witness ==
  /\ last.name = "delete"
  /\ Len(last.pre.selectedNodeIds) = 1
  /\ Len(nodes) = Len(last.pre.nodes) - 1
  /\ Len(nodes) > 0
  /\ Len(edges) < Len(last.pre.edges)
  /\ \E i \in 1..Len(last.pre.edges) :
       /\ Includes(last.pre.selectedNodeIds, last.pre.edges[i].targetId)
       /\ ~Includes(last.pre.selectedNodeIds, last.pre.edges[i].sourceId)
  /\ historyIndex = last.pre.historyIndex + 1

(* C8: with the connect tool, a pointer-down on a node when no source is   *)
(* recorded records it as the source and adds no edge; the next            *)
(* pointer-down, on a different node, appends exactly one edge from the    *)
(* source to that node with every style field at its default (solid,       *)
(* #334155, width 1.4, label colour #94a3b8, label size 12, not bold),     *)
(* clears connectFromId, commits once and leaves the tool at connect.      *)
C8_ConnectTwoClicks ==
  (last.name = "mouseDown" /\ last.pre.selectedTool = "connect"
    /\ LastHit # 0)
    => /\ last.pre.connectFromId = NoId
            => /\ connectFromId = LastHitId
               /\ edges = last.pre.edges
               /\ history = last.pre.history
               /\ historyIndex = last.pre.historyIndex
               /\ selectedTool = "connect"
       /\ (last.pre.connectFromId # NoId
             /\ last.pre.connectFromId # LastHitId)
            => /\ Len(edges) = Len(last.pre.edges) + 1
               /\ SubSeq(edges, 1, Len(last.pre.edges)) = last.pre.edges
               /\ nodes = last.pre.nodes
               /\ Without(edges[Len(edges)], {"id"}) =
                    [sourceId |-> last.pre.connectFromId,
                     targetId |-> LastHitId, label |-> "",
                     lineStyle |-> "solid", lineColor |-> "#334155",
                     lineWidth |-> 14, labelColor |-> "#94a3b8",
                     labelFontSize |-> 12, labelBold |-> FALSE]
               /\ Has(edges[Len(edges)], "id")
               /\ connectFromId = NoId
               /\ CommittedOnce
               /\ selectedTool = "connect"

C8_Witness ==
  /\ last.name = "mouseDown"
  /\ last.pre.selectedTool = "connect"
  /\ LastHit # 0
  /\ last.pre.connectFromId # NoId
  /\ last.pre.selectedNodeIds = <<last.pre.connectFromId>>
  /\ FindById(last.pre.nodes, last.pre.connectFromId) # 0
  /\ last.pre.connectFromId # LastHitId
  /\ Len(edges) = Len(last.pre.edges) + 1
  /\ edges[Len(edges)].targetId = LastHitId
  /\ historyIndex = last.pre.historyIndex + 1
  /\ selectedTool = "connect"

(* C9: with the connect tool, a pointer-down on the node recorded as the   *)
(* source, or on a point where no node is, leaves edges, connectFromId,    *)
(* the selection and the history as they were; so no edge the connect      *)
(* gesture appends has its source as its target.                           *)
C9_ConnectRefusals ==
  (last.name = "mouseDown" /\ last.pre.selectedTool = "connect")
    => /\ (LastHit = 0 \/ LastHitId = last.pre.connectFromId)
            => /\ edges = last.pre.edges
               /\ connectFromId = last.pre.connectFromId
               /\ selectedNodeId = last.pre.selectedNodeId
               /\ selectedNodeIds = last.pre.selectedNodeIds
               /\ selectedEdgeId = last.pre.selectedEdgeId
               /\ history = last.pre.history
               /\ historyIndex = last.pre.historyIndex
       /\ \A i \in (Len(last.pre.edges) + 1)..Len(edges) :
            edges[i].sourceId # edges[i].targetId

C9_Witness ==
  /\ last.name = "mouseDown"
  /\ last.pre.selectedTool = "connect"
  /\ LastHit # 0
  /\ LastHitId = last.pre.connectFromId
  /\ edges = last.pre.edges
  /\ connectFromId = LastHitId
  /\ history = last.pre.history

(* C10: with a placement tool, a pointer-down at the world point p,        *)
(* whatever is under p, appends exactly one node of the tool's kind        *)
(* centred at p with the kind's size (decision 140x90, io 150x70, the      *)
(* others 140x64, all positive), makes it the only selected node with no   *)
(* edge selected, commits once and sets the tool to select.                *)
C10_Placement ==
  (last.name = "mouseDown" /\ last.pre.selectedTool \in NodeKinds)
    => /\ Len(nodes) = Len(last.pre.nodes) + 1
       /\ SubSeq(nodes, 1, Len(last.pre.nodes)) = last.pre.nodes
       /\ edges = last.pre.edges
       /\ nodes[Len(nodes)].type = last.pre.selectedTool
       /\ nodes[Len(nodes)].x = LastPoint.x
       /\ nodes[Len(nodes)].y = LastPoint.y
       /\ <<nodes[Len(nodes)].width, nodes[Len(nodes)].height>> =
            IF last.pre.selectedTool = "decision" THEN <<140, 90>>
            ELSE IF last.pre.selectedTool = "io" THEN <<150, 70>>
            ELSE <<140, 64>>
       /\ nodes[Len(nodes)].width > 0
       /\ nodes[Len(nodes)].height > 0
       /\ selectedNodeIds = <<nodes[Len(nodes)].id>>
       /\ selectedNodeId = nodes[Len(nodes)].id
       /\ selectedEdgeId = NoId
       /\ CommittedOnce
       /\ selectedTool = "select"

C10_Witness ==
  /\ last.name = "mouseDown"
  /\ last.pre.selectedTool = "decision"
  /\ LastHit # 0
  /\ last.pre.selectedNodeIds # <<>>
  /\ Len(nodes) = Len(last.pre.nodes) + 1
  /\ nodes[Len(nodes)].height = 90
  /\ selectedNodeIds = <<nodes[Len(nodes)].id>>
  /\ selectedTool = "select"

----------------------------------------------------------------------------
(* Clipboard, marquee, layout and file claims, checked under SpecAll. *)

Clip(s) == [nodes |-> s.clipboardData[1].nodes, edges |-> s.clipboardData[1].edges]

(* The nodes and the edges the last event appended. *)
NewNodes == SubSeq(nodes, Len(last.pre.nodes) + 1, Len(nodes))

NewEdges == SubSeq(edges, Len(last.pre.edges) + 1, Len(edges))

PasteActs ==
  /\ last.name = "paste"
  /\ last.pre.clipboardData # <<>>
  /\ Len(last.pre.clipboardData[1].nodes) > 0

(* C11: a paste counts one up from the pastes since the last copy, and     *)
(* with k the new count it places the copy of the i-th clipboard node at   *)
(* that node's clipboard position plus (28k, 28k) and adds 28k to each     *)
(* explicit bend coordinate of a pasted edge (a bend coordinate that is    *)
(* not explicit stays so); a copy taken with a non-empty selection sets    *)
(* the count to 0.                                                         *)
C11_PasteOffset ==
  /\ PasteActs =>
        LET clip == Clip(last.pre)
            k == last.pre.pasteCount + 1
        IN /\ pasteCount = k
           /\ Len(NewNodes) = Len(clip.nodes)
           /\ Len(NewEdges) = Len(clip.edges)
           /\ \A i \in 1..Len(clip.nodes) :
                 /\ NewNodes[i].x = clip.nodes[i].x + PasteStep * k
                 /\ NewNodes[i].y = clip.nodes[i].y + PasteStep * k
           /\ \A j \in 1..Len(clip.edges) : \A key \in BendKeys :
                 IF HasNumber(clip.edges[j], key)
                   THEN /\ HasNumber(NewEdges[j], key)
                        /\ NewEdges[j][key] = clip.edges[j][key] + PasteStep * k
                   ELSE ~HasNumber(NewEdges[j], key)
  /\ (/\ last.name = "copy"
      /\ (last.pre.selectedNodeIds # <<>> \/ selectedNode(last.pre) # 0))
       => pasteCount = 0

(* The second paste of a copy that holds an edge with an explicit bend. *)
C11_Witness ==
  /\ PasteActs
  /\ pasteCount = 2
  /\ \E j \in 1..Len(Clip(last.pre).edges) :
        HasNumber(Clip(last.pre).edges[j], "bendY")

(* C12: a paste with a non-empty clipboard appends one node per clipboard *)
(* node and one edge per clipboard edge, each under an id no node or edge  *)
(* had and no other pasted object has; a pasted edge joins the pasted      *)
(* copies of the nodes its clipboard edge joins; the nodes and edges there *)
(* before are unchanged; the pasted node ids become the node selection, no *)
(* edge is selected, and history is committed exactly once.                *)
C12_PasteAppends ==
  PasteActs =>
    LET clip == Clip(last.pre)
        before == Range(IdsOf(last.pre.nodes)) \cup Range(IdsOf(last.pre.edges))
        pasted == IdsOf(NewNodes) \o IdsOf(NewEdges)
    IN /\ Len(NewNodes) = Len(clip.nodes)
       /\ Len(NewEdges) = Len(clip.edges)
       /\ \A i \in 1..Len(pasted) :
             /\ pasted[i] \notin before
             /\ \A j \in 1..Len(pasted) : pasted[i] = pasted[j] => i = j
       /\ \A j \in 1..Len(clip.edges) :
             /\ \E i \in 1..Len(clip.nodes) :
                   /\ clip.nodes[i].id = clip.edges[j].sourceId
                   /\ NewEdges[j].sourceId = NewNodes[i].id
             /\ \E i \in 1..Len(clip.nodes) :
                   /\ clip.nodes[i].id = clip.edges[j].targetId
                   /\ NewEdges[j].targetId = NewNodes[i].id
       /\ SubSeq(nodes, 1, Len(last.pre.nodes)) = last.pre.nodes
       /\ SubSeq(edges, 1, Len(last.pre.edges)) = last.pre.edges
       /\ selectedNodeIds = IdsOf(NewNodes)
       /\ selectedEdgeId = NoId
       /\ CommittedOnce

(* A paste of two nodes and the edge between them into a diagram that has  *)
(* nodes and an edge.                                                      *)
C12_Witness ==
  /\ PasteActs
  /\ Len(Clip(last.pre).nodes) = 2
  /\ Len(Clip(last.pre).edges) = 1
  /\ Len(last.pre.edges) > 0
  /\ Len(edges) = Len(last.pre.edges) + 1

(* The ids copySelected copies: the node selection, or else the node      *)
(* selectedNodeId names.                                                   *)
CopiedIds(s) ==
  IF s.selectedNodeIds # <<>> THEN Range(s.selectedNodeIds)
  ELSE IF selectedNode(s) # 0 THEN {s.selectedNodeId}
  ELSE {}

(* C13: a copy with something selected makes the clipboard the selected    *)
(* nodes and the edges whose two endpoints are selected, as they are at    *)
(* that moment, and leaves nodes, edges, the selection, history and        *)
(* historyIndex unchanged; no other event changes what the clipboard       *)
(* holds, whatever it does to the live diagram.                            *)
C13_CopyIsolated ==
  /\ (last.name = "copy" /\ CopiedIds(last.pre) # {}) =>
        /\ clipboardData # <<>>
        /\ Clip(St).nodes =
             SelectSeq(last.pre.nodes, LAMBDA n : n.id \in CopiedIds(last.pre))
        /\ Clip(St).edges =
             SelectSeq(last.pre.edges,
                       LAMBDA e : /\ e.sourceId \in CopiedIds(last.pre)
                                  /\ e.targetId \in CopiedIds(last.pre))
        /\ Live(St) = Live(last.pre)
        /\ selectedNodeId = last.pre.selectedNodeId
        /\ selectedNodeIds = last.pre.selectedNodeIds
        /\ selectedEdgeId = last.pre.selectedEdgeId
        /\ history = last.pre.history
        /\ historyIndex = last.pre.historyIndex
  /\ last.name \notin {"none", "copy"} =>
        IF last.pre.clipboardData = <<>> THEN clipboardData = <<>>
        ELSE clipboardData # <<>> /\ Clip(St) = Clip(last.pre)

(* A drag has moved a node that was copied: the live node is no longer     *)
(* where the clipboard has it.                                             *)
C13_Witness ==
  /\ last.name = "mouseMove"
  /\ clipboardData # <<>>
  /\ \E i \in 1..Len(nodes) : \E j \in 1..Len(Clip(St).nodes) :
        /\ nodes[i].id = Clip(St).nodes[j].id
        /\ nodes[i].x # Clip(St).nodes[j].x

(* The bounding box of the node and the rectangle have a point in common. *)
Touches(node, rect) ==
  /\ 2 * node.x - node.width <= 2 * rect.x2
  /\ 2 * node.x + node.width >= 2 * rect.x1
  /\ 2 * node.y - node.height <= 2 * rect.y2
  /\ 2 * node.y + node.height >= 2 * rect.y1

MarqueeEnds == last.name = "mouseUp" /\ last.pre.marquee.active

(* The rectangle between the corner the marquee began at and the corner    *)
(* the pointer was last moved to.                                          *)
LastRect ==
  LET m == last.pre.marquee
  IN [x1 |-> Min2(m.startX, m.endX), x2 |-> Max2(m.startX, m.endX),
      y1 |-> Min2(m.startY, m.endY), y2 |-> Max2(m.startY, m.endY)]

(* C14: the pointer-up that ends an active marquee makes the node          *)
(* selection the selection held before together with every node whose      *)
(* bounding box overlaps or touches the marquee rectangle, each id once; a *)
(* node outside the rectangle and not selected before is not selected;     *)
(* nodes, edges, history and historyIndex are unchanged.                   *)
C14_MarqueeSelects ==
  MarqueeEnds =>
    /\ Range(selectedNodeIds) =
         Range(last.pre.selectedNodeIds)
           \cup {n.id : n \in {m \in Range(last.pre.nodes) : Touches(m, LastRect)}}
    /\ \A i, j \in 1..Len(selectedNodeIds) :
          selectedNodeIds[i] = selectedNodeIds[j] => i = j
    /\ SubSeq(selectedNodeIds, 1, Len(last.pre.selectedNodeIds))
         = last.pre.selectedNodeIds
    /\ ~marquee.active
    /\ Live(St) = Live(last.pre)
    /\ history = last.pre.history
    /\ historyIndex = last.pre.historyIndex

(* A marquee ends that overlaps one node, touches the upper side of        *)
(* another, misses a third, and misses a fourth that was selected before.  *)
C14_Witness ==
  /\ MarqueeEnds
  /\ Len(last.pre.selectedNodeIds) = 1
  /\ Len(selectedNodeIds) = 3
  /\ Len(nodes) = 4
  /\ \E i \in 1..Len(nodes) :
        /\ 2 * nodes[i].y - nodes[i].height = 2 * LastRect.y2
        /\ Includes(selectedNodeIds, nodes[i].id)
  /\ \E i \in 1..Len(nodes) :
        /\ ~Touches(nodes[i], LastRect)
        /\ Includes(selectedNodeIds, nodes[i].id)

(* C15: autoLayout returns on every diagram, the cycle of two nodes that  *)
(* two connect gestures draw included.                                     *)
C15_AutoLayoutReturns ==
  last.name = "autoLayout" => fault = NoFault

(* The ids reached from the ids of set by at most n further edges. *)
RECURSIVE ReachWithin(_, _, _)
ReachWithin(es, set, n) ==
  IF n = 0 THEN set
  ELSE ReachWithin(es,
                   set \cup {es[k].targetId :
                               k \in {j \in 1..Len(es) : es[j].sourceId \in set}},
                   n - 1)

Acyclic(ns, es) ==
  \A i \in 1..Len(ns) :
    ns[i].id \notin ReachWithin(es, {es[k].targetId :
                                       k \in {j \in 1..Len(es) :
                                                es[j].sourceId = ns[i].id}},
                                Len(es))

NoDangling(ns, es) ==
  \A k \in 1..Len(es) :
    FindById(ns, es[k].sourceId) # 0 /\ FindById(ns, es[k].targetId) # 0

Greatest(set) == CHOOSE m \in set : \A n \in set : n <= m

(* The number of edges of the longest path that ends at id (the graph is   *)
(* acyclic).                                                               *)
RECURSIVE LongestPath(_, _)
LongestPath(es, id) ==
  LET into == {k \in 1..Len(es) : es[k].targetId = id}
  IN IF into = {} THEN 0
     ELSE 1 + Greatest({LongestPath(es, es[k].sourceId) : k \in into})

LayoutOf(direction) ==
  /\ last.name = "autoLayout"
  /\ last.direction = direction
  /\ fault = NoFault
  /\ Len(last.pre.nodes) > 0

(* The coordinate of a node along the layers: y when the layout is         *)
(* vertical, x when it is horizontal.                                      *)
Along(node) == IF last.direction = "vertical" THEN node.y ELSE node.x

(* C16: after autoLayout on an acyclic diagram whose edges all join nodes  *)
(* of the diagram, each node lies in the layer numbered by the longest     *)
(* path of edges that ends at it (0 for a node no edge enters), and every  *)
(* edge ends in a layer after the one it starts in: its target has the     *)
(* greater y in a vertical layout, the greater x in a horizontal one.      *)
C16_LongestPathLayers ==
  (/\ \E direction \in Directions : LayoutOf(direction)
   /\ Acyclic(last.pre.nodes, last.pre.edges)
   /\ NoDangling(last.pre.nodes, last.pre.edges)) =>
    /\ \A i \in 1..Len(nodes) :
          Along(nodes[i]) =
            (IF last.direction = "vertical" THEN originY ELSE originX)
              + layerGap * LongestPath(last.pre.edges, nodes[i].id)
    /\ \A k \in 1..Len(edges) :
          Along(nodes[FindById(nodes, edges[k].targetId)])
            > Along(nodes[FindById(nodes, edges[k].sourceId)])

(* A vertical layout of a diagram in which a node two edges down a path is *)
(* also the target of an edge from the path's first node.                  *)
C16_Witness ==
  /\ LayoutOf("vertical")
  /\ Acyclic(last.pre.nodes, last.pre.edges)
  /\ \E k \in 1..Len(edges) :
        /\ nodes[FindById(nodes, edges[k].sourceId)].y = originY
        /\ nodes[FindById(nodes, edges[k].targetId)].y = originY + 2 * layerGap

(* The layer a laid-out node lies in and its place among the nodes of     *)
(* that layer, nodes counted in diagram order from 0.                      *)
LayerAt(k) ==
  (Along(nodes[k]) - (IF last.direction = "vertical" THEN originY ELSE originX))
    \div layerGap

PlaceAt(k) == Cardinality({j \in 1..(k - 1) : LayerAt(j) = LayerAt(k)})

(* C17: autoLayout on a non-empty diagram puts the i-th node of layer L    *)
(* (diagram order, from 0) at (180 + 140 i, 120 + 170 L) when vertical and *)
(* at (180 + 170 L, 120 + 140 i) when horizontal, so that no two nodes     *)
(* share a position; it leaves no edge with an explicit bend; it changes   *)
(* nothing else of the nodes and the edges, nor the selection, and commits *)
(* exactly once.  On an empty diagram it changes and commits nothing.      *)
C17_LayoutPlacement ==
  /\ (\E direction \in Directions : LayoutOf(direction)) =>
        /\ \A k \in 1..Len(nodes) :
              /\ LayerAt(k) >= 0
              /\ nodes[k].x = IF last.direction = "vertical"
                                THEN originX + itemGap * PlaceAt(k)
                                ELSE originX + layerGap * LayerAt(k)
              /\ nodes[k].y = IF last.direction = "vertical"
                                THEN originY + layerGap * LayerAt(k)
                                ELSE originY + itemGap * PlaceAt(k)
        /\ \A j, k \in 1..Len(nodes) :
              (nodes[j].x = nodes[k].x /\ nodes[j].y = nodes[k].y) => j = k
        /\ \A k \in 1..Len(edges) : \A key \in BendKeys :
              ~HasNumber(edges[k], key)
        /\ Len(nodes) = Len(last.pre.nodes)
        /\ \A k \in 1..Len(nodes) :
              Without(nodes[k], {"x", "y"}) = Without(last.pre.nodes[k], {"x", "y"})
        /\ Len(edges) = Len(last.pre.edges)
        /\ \A k \in 1..Len(edges) :
              Without(edges[k], BendKeys) = Without(last.pre.edges[k], BendKeys)
        /\ selectedNodeId = last.pre.selectedNodeId
        /\ selectedNodeIds = last.pre.selectedNodeIds
        /\ selectedEdgeId = last.pre.selectedEdgeId
        /\ CommittedOnce
  /\ (last.name = "autoLayout" /\ Len(last.pre.nodes) = 0) => St = last.pre

(* A horizontal layout of a diagram with two nodes in one layer, an edge   *)
(* with an explicit bend and a node selected.                              *)
C17_Witness ==
  /\ LayoutOf("horizontal")
  /\ \E k \in 1..Len(nodes) : PlaceAt(k) = 1
  /\ \E k \in 1..Len(edges) : HasNumber(last.pre.edges[k], "bendX")
  /\ selectedNodeIds # <<>>

(* C18: importing the text exportJson gives for the current diagram       *)
(* leaves live nodes and edges deep-equal to those exported: as many, in   *)
(* the same order, with the same ids and the same field values.            *)
C18_ExportImportRoundTrip ==
  (last.name = "import" /\ last.text = exportJson(last.pre)) =>
    /\ Len(nodes) = Len(last.pre.nodes)
    /\ Len(edges) = Len(last.pre.edges)
    /\ Serialized(St) = Serialized(last.pre)

(* The export of a diagram with nodes and an edge whose bend coordinates   *)
(* are undefined is imported into that diagram.                            *)
C18_Witness ==
  /\ last.name = "import"
  /\ last.text = exportJson(last.pre)
  /\ Len(nodes) > 1
  /\ \E k \in 1..Len(last.pre.edges) :
        Has(last.pre.edges[k], "bendX") /\ ~HasNumber(last.pre.edges[k], "bendX")

ImportLeavesAll ==
  /\ Live(St) = Live(last.pre)
  /\ selectedNodeId = last.pre.selectedNodeId
  /\ selectedNodeIds = last.pre.selectedNodeIds
  /\ selectedEdgeId = last.pre.selectedEdgeId
  /\ history = last.pre.history
  /\ historyIndex = last.pre.historyIndex

ImportReplacesAll ==
  /\ nodes = ArrayField(last.text, "nodes")
  /\ edges = ArrayField(last.text, "edges")
  /\ SelectionEmpty
  /\ connectFromId = NoId
  /\ CommittedOnce

(* C19: an import leaves the diagram either untouched or replaced as a     *)
(* whole: after a text that is not JSON, nodes, edges, selection and       *)
(* history are unchanged; after a text that parses to an object, nodes and *)
(* edges are the parsed arrays (the empty sequence for a missing or        *)
(* non-array field), selection and connect source are cleared and history  *)
(* is committed exactly once.                                              *)
C19_ImportAllOrNothing ==
  last.name = "import" =>
    /\ ImportLeavesAll \/ ImportReplacesAll
    /\ last.text[1] = "malformed" => ImportLeavesAll
    /\ last.text[1] = "object" => ImportReplacesAll

(* C20: in every reachable state the node selection and the edge          *)
(* selection are not both non-empty.                                       *)
C20_SelectionExclusive ==
  ~(selectedNodeIds # <<>> /\ selectedEdgeId # NoId)

(* An edge was selected and the last event has selected nodes instead, or  *)
(* nodes were selected and the last event has selected an edge instead.    *)
C20_Witness ==
  /\ last.name # "none"
  /\ \/ /\ last.pre.selectedEdgeId # NoId
        /\ Len(selectedNodeIds) > 1
        /\ selectedEdgeId = NoId
     \/ /\ Len(last.pre.selectedNodeIds) > 1
        /\ selectedEdgeId # NoId
        /\ selectedNodeIds = <<>>

----------------------------------------------------------------------------
(* Viewport, geometry and pointer-gesture claims, checked under SpecAll. *)

(* C21: in every reachable state the scale lies between 0.5 and 2.0 (50    *)
(* and 200 hundredths), whatever wheel steps, centerView calls and         *)
(* template loads have occurred; centerView(false) and the pointer events, *)
(* panning among them, leave the scale as it is.                           *)
C21_ScaleBounded ==
  /\ scale >= 50
  /\ scale <= 200
  /\ (\/ last.name \in {"mouseDown", "mouseMove", "mouseUp"}
      \/ (last.name = "centerView" /\ ~last.fit)) => scale = last.pre.scale

(* A wheel step up at scale 2.0, which the step would take to 2.1. *)
C21_Witness ==
  /\ last.name = "wheel"
  /\ last.deltaY < 0
  /\ last.pre.scale = 200
  /\ scale = 200

(* C22: aimed due right, left, above or below its centre, the boundary    *)
(* point of a node lies on the outline of the node's kind, on the side     *)
(* aimed at: on the ellipse (dx/hw)^2 + (dy/hh)^2 = 1 for a start or end   *)
(* node, on the diamond |dx|/hw + |dy|/hh = 1 for a decision node, on a    *)
(* side of the rectangle for a process node, and for an io node on one of  *)
(* the four sides of the slanted quadrilateral with no side crossed        *)
(* earlier along the ray; aimed at the centre, it is the centre.           *)
OnSegment(p, a, b) ==
  /\ (b.x - a.x) * (p.y - a.y) = (b.y - a.y) * (p.x - a.x)
  /\ (p.x - a.x) * (b.x - a.x) + (p.y - a.y) * (b.y - a.y) >= 0
  /\ (p.x - b.x) * (a.x - b.x) + (p.y - b.y) * (a.y - b.y) >= 0

OnIoOutline(node, p) ==
  \E i \in 1..4 : OnSegment(p, IoPoints(node)[i], IoPoints(node)[(i % 4) + 1])

OnOutline(node, p) ==
  LET dx == p.x - node.x
      dy == p.y - node.y
      hw == node.width \div 2
      hh == node.height \div 2
  IN IF node.type \in {"start", "end"}
       THEN (dx * hh) * (dx * hh) + (dy * hw) * (dy * hw) = (hw * hh) * (hw * hh)
     ELSE IF node.type = "decision"
       THEN Abs(dx) * hh + Abs(dy) * hw = hw * hh
     ELSE IF node.type = "io" THEN OnIoOutline(node, p)
     ELSE \/ Abs(dx) = hw /\ Abs(dy) <= hh
          \/ Abs(dy) = hh /\ Abs(dx) <= hw

(* The points of the ray from the node's centre towards (vx, vy), an axis  *)
(* direction, that come before the point p.                                *)
Before(node, vx, vy, p) ==
  {[x |-> node.x + k * Sign(vx), y |-> node.y + k * Sign(vy)] :
     k \in 0..(Abs(p.x - node.x) + Abs(p.y - node.y) - 1)}

AimedAlongAxis ==
  /\ last.name = "nodeBoundaryPoint"
  /\ (last.towardX = last.node.x) # (last.towardY = last.node.y)

C22_BoundaryOnOutline ==
  /\ AimedAlongAxis =>
       /\ OnOutline(last.node, last.point)
       /\ Sign(last.point.x - last.node.x) = Sign(last.towardX - last.node.x)
       /\ Sign(last.point.y - last.node.y) = Sign(last.towardY - last.node.y)
       /\ last.node.type = "io" =>
            \A q \in Before(last.node, last.towardX - last.node.x,
                             last.towardY - last.node.y, last.point) :
              ~OnIoOutline(last.node, q)
  /\ (/\ last.name = "nodeBoundaryPoint"
      /\ last.towardX = last.node.x
      /\ last.towardY = last.node.y) =>
       last.point = [x |-> last.node.x, y |-> last.node.y]

C22_Witness ==
  /\ AimedAlongAxis
  /\ last.node.type = "io"
  /\ last.towardX > last.node.x
  /\ last.point = [x |-> last.node.x + 65, y |-> last.node.y]

-----------------------------------------------------------------------------
(* Pointer-gesture claims, checked under SpecPointer. *)

Released == last.name \in {"mouseUp", "mouseLeave"}

Position(n) == <<n.id, n.x, n.y>>

Bend(e) ==
  IF "bendX" \in DOMAIN e /\ "bendY" \in DOMAIN e
    THEN <<e.id, e.bendX, e.bendY>> ELSE <<e.id>>

Positions(ns) == [i \in 1..Len(ns) |-> Position(ns[i])]

Bends(es) == [i \in 1..Len(es) |-> Bend(es[i])]

(* Some node's position or some edge's bend point in s is not the one of   *)
(* the snapshot the history points at: the diagram as it was when the      *)
(* gesture began.                                                          *)
GestureChanged(s) ==
  \/ Positions(s.nodes) # Positions(s.history[s.historyIndex + 1].nodes)
  \/ Bends(s.edges) # Bends(s.history[s.historyIndex + 1].edges)

Dragging(s) == s.draggingNodeId # NoId \/ s.draggingBendEdgeId # NoId

(* C23: a pointer-up that ends a node, group or bend drag commits a        *)
(* snapshot if and only if the gesture changed some node's position or     *)
(* some edge's bend point.                                                 *)
C23_CommitIffChanged ==
  (Released /\ Dragging(last.pre)) =>
    ((history # last.pre.history) <=> GestureChanged(last.pre))

(* C24: a pointer-move, in whatever sub-state it is handled and however   *)
(* many moves came before it, leaves history and historyIndex as they      *)
(* were.                                                                   *)
C24_MoveKeepsHistory ==
  last.name = "mouseMove" =>
    /\ history = last.pre.history
    /\ historyIndex = last.pre.historyIndex

(* The second move of a node drag, the node moved again. *)
C24_Witness ==
  /\ last.name = "mouseMove"
  /\ last.pre.draggingNodeId # NoId
  /\ last.pre.draggingMoved
  /\ Positions(nodes) # Positions(last.pre.nodes)

(* C25: after a pointer-up or a pointer-leave no transient sub-state is    *)
(* left: no node, group or bend drag, no pan, no open marquee.             *)
C25_ReleaseClears ==
  Released =>
    /\ draggingNodeId = NoId
    /\ draggingBendEdgeId = NoId
    /\ draggingGroupIds = <<>>
    /\ groupDragStart = <<>>
    /\ ~panning
    /\ ~marquee.active

(* C26: at most one of the transient sub-states is active at a time: node *)
(* drag, bend drag, pan, marquee.                                          *)
ActiveSubStates ==
  {m \in {"node drag", "bend drag", "pan", "marquee"} :
     \/ m = "node drag" /\ draggingNodeId # NoId
     \/ m = "bend drag" /\ draggingBendEdgeId # NoId
     \/ m = "pan" /\ panning
     \/ m = "marquee" /\ marquee.active}

C26_OneSubState == Cardinality(ActiveSubStates) <= 1

(* C27: after a pointer-move of a group drag any two nodes of the group    *)
(* lie as far apart, in x and in y, as they did when the drag began.       *)
Dragged(s) ==
  {i \in 1..Len(s.nodes) :
     /\ Includes(s.draggingGroupIds, s.nodes[i].id)
     /\ s.nodes[i].id \in DOMAIN s.groupDragStart}

NodeDragMoved ==
  /\ last.name = "mouseMove"
  /\ last.pre.draggingNodeId # NoId
  /\ last.pre.draggingBendEdgeId = NoId

C27_OffsetsKept ==
  NodeDragMoved =>
    \A i, j \in Dragged(last.pre) :
      /\ nodes[i].x - nodes[j].x
           = groupDragStart[nodes[i].id].x - groupDragStart[nodes[j].id].x
      /\ nodes[i].y - nodes[j].y
           = groupDragStart[nodes[i].id].y - groupDragStart[nodes[j].id].y

(* C28: after a pointer-move of a node or group drag the lead node's x is *)
(* a multiple of 20 or the x of some other node, and likewise its y; and   *)
(* neither is further than 8 from the grid point nearest to where the      *)
(* pointer took the node.                                                  *)
Lead == nodes[FindById(nodes, last.pre.draggingNodeId)]

LeadMoved ==
  /\ NodeDragMoved
  /\ last.pre.draggingNodeId \in DOMAIN last.pre.groupDragStart
  /\ FindById(nodes, last.pre.draggingNodeId) # 0

(* Where the pointer alone takes the lead node, and the grid point next to *)
(* it.                                                                     *)
Raw ==
  LET p == toCanvasPoint(last.pre, last.x, last.y)
      start == last.pre.groupDragStart[last.pre.draggingNodeId]
  IN [x |-> start.x + (p.x - last.pre.dragStartPoint.x),
      y |-> start.y + (p.y - last.pre.dragStartPoint.y)]

OnGrid(v) == RDiv(v, SnapGrid) * SnapGrid

C28_LeadSnapped ==
  LeadMoved =>
    /\ \/ Lead.x % SnapGrid = 0
       \/ \E i \in 1..Len(nodes) : nodes[i].id # Lead.id /\ nodes[i].x = Lead.x
    /\ \/ Lead.y % SnapGrid = 0
       \/ \E i \in 1..Len(nodes) : nodes[i].id # Lead.id /\ nodes[i].y = Lead.y
    /\ Abs(Lead.x - OnGrid(Raw.x)) <= AlignThreshold
    /\ Abs(Lead.y - OnGrid(Raw.y)) <= AlignThreshold

(* C29: with the select tool a pointer-down on a bend handle starts the    *)
(* bend drag of its edge, selects the edge and clears the node selection,  *)
(* whatever else is under the point; with no bend handle there, a node     *)
(* under the point is taken before an edge, and of several nodes the last  *)
(* of the diagram.  With the connect tool or a placement tool a bend       *)
(* handle under the point changes nothing.                                 *)
Pressed == last.name = "mouseDown"

PressPoint == toCanvasPoint(last.pre, last.x, last.y)

BendsUnder ==
  {i \in 1..Len(last.pre.edges) :
     NearBend(edgePath(last.pre.nodes, last.pre.edges[i]), PressPoint.x,
              PressPoint.y, RDiv(BendRadius * 100, last.pre.scale))}

NodesUnder ==
  {i \in 1..Len(last.pre.nodes) :
     containsPoint(last.pre.nodes[i], PressPoint.x, PressPoint.y)}

EdgesUnder ==
  {i \in 1..Len(last.pre.edges) :
     NearPath(edgePath(last.pre.nodes, last.pre.edges[i]), PressPoint.x,
              PressPoint.y, RDiv(EdgeHitDistance * 100, last.pre.scale))}

Top(hits) == CHOOSE i \in hits : \A j \in hits : j <= i

NodeHit == last.pre.nodes[Top(NodesUnder)].id

C29_HitPriority ==
  /\ (Pressed /\ last.pre.selectedTool = "select" /\ BendsUnder # {}) =>
       /\ draggingBendEdgeId = last.pre.edges[Top(BendsUnder)].id
       /\ selectedEdgeId = draggingBendEdgeId
       /\ selectedNodeId = NoId
       /\ selectedNodeIds = <<>>
       /\ draggingNodeId = last.pre.draggingNodeId
  /\ (/\ Pressed
      /\ last.pre.selectedTool = "select"
      /\ BendsUnder = {}
      /\ NodesUnder # {}) =>
       /\ selectedEdgeId = NoId
       /\ draggingBendEdgeId = last.pre.draggingBendEdgeId
       /\ ~last.shift => draggingNodeId = NodeHit /\ selectedNodeId = NodeHit
       /\ last.shift =>
            Includes(selectedNodeIds, NodeHit)
              # Includes(last.pre.selectedNodeIds, NodeHit)
  /\ (Pressed /\ last.pre.selectedTool # "select" /\ BendsUnder # {}) =>
       /\ draggingBendEdgeId = last.pre.draggingBendEdgeId
       /\ Bends(edges) = Bends(SubSeq(last.pre.edges, 1, Len(last.pre.edges)))
            \o Bends(NewEdges)
       /\ selectedEdgeId \in {NoId, last.pre.selectedEdgeId}
       /\ last.pre.selectedTool # "connect" =>
            Len(nodes) = Len(last.pre.nodes) + 1

(* A bend handle, a node and the edge's path under the point at once. *)
C29_Witness ==
  /\ Pressed
  /\ last.pre.selectedTool = "select"
  /\ BendsUnder # {}
  /\ NodesUnder # {}
  /\ EdgesUnder # {}
  /\ draggingBendEdgeId # NoId

(* C30: with the select tool and no bend handle under the point, a        *)
(* pointer-down on a node: with Shift, puts the node into the selection    *)
(* if it was out and takes it out if it was in, and starts no drag;        *)
(* without Shift on a selected node, keeps the selection, makes the node   *)
(* the active one and starts a drag of all selected nodes; without Shift   *)
(* on an unselected node, selects it alone and starts a drag of it alone.  *)
(* Nodes, edges and history stay as they were in all three.                *)
NodePress ==
  /\ Pressed
  /\ last.pre.selectedTool = "select"
  /\ BendsUnder = {}
  /\ NodesUnder # {}

WasSelected == \E i \in 1..Len(last.pre.selectedNodeIds) :
                 last.pre.selectedNodeIds[i] = NodeHit

Others(ids, id) == SelectSeq(ids, LAMBDA n : n # id)

C30_NodePress ==
  NodePress =>
    /\ nodes = last.pre.nodes
    /\ edges = last.pre.edges
    /\ history = last.pre.history
    /\ historyIndex = last.pre.historyIndex
    /\ (last.shift /\ WasSelected) =>
         selectedNodeIds = Others(last.pre.selectedNodeIds, NodeHit)
    /\ (last.shift /\ ~WasSelected) =>
         selectedNodeIds = Append(last.pre.selectedNodeIds, NodeHit)
    /\ last.shift =>
         /\ draggingNodeId = last.pre.draggingNodeId
         /\ draggingGroupIds = last.pre.draggingGroupIds
         /\ groupDragStart = last.pre.groupDragStart
    /\ (~last.shift /\ WasSelected) =>
         /\ selectedNodeIds = last.pre.selectedNodeIds
         /\ selectedNodeId = NodeHit
         /\ draggingNodeId = NodeHit
         /\ draggingGroupIds = selectedNodeIds
    /\ (~last.shift /\ ~WasSelected) =>
         /\ selectedNodeIds = <<NodeHit>>
         /\ selectedNodeId = NodeHit
         /\ draggingNodeId = NodeHit
         /\ draggingGroupIds = <<NodeHit>>

(* A press on one of two selected nodes: the drag takes both. *)
C30_Witness ==
  /\ NodePress
  /\ ~last.shift
  /\ WasSelected
  /\ Len(draggingGroupIds) = 2
  /\ last.pre.draggingNodeId = NoId

(* C31: with the select tool, a pointer-down with no bend handle, node or  *)
(* edge under it: with Shift, opens a marquee in append mode at the point  *)
(* and leaves the node selection as it was; without Shift, empties the     *)
(* node and the edge selection and starts panning.  Nodes, edges and       *)
(* history stay as they were, and no pointer-down with another tool starts *)
(* a pan or opens a marquee.                                               *)
EmptyPress ==
  /\ Pressed
  /\ last.pre.selectedTool = "select"
  /\ BendsUnder = {}
  /\ NodesUnder = {}
  /\ EdgesUnder = {}

C31_EmptyPress ==
  /\ EmptyPress =>
       /\ nodes = last.pre.nodes
       /\ edges = last.pre.edges
       /\ history = last.pre.history
       /\ historyIndex = last.pre.historyIndex
       /\ last.shift =>
            /\ marquee = [active |-> TRUE, startX |-> PressPoint.x,
                          startY |-> PressPoint.y, endX |-> PressPoint.x,
                          endY |-> PressPoint.y, append |-> TRUE]
            /\ selectedNodeIds = last.pre.selectedNodeIds
            /\ selectedNodeId = last.pre.selectedNodeId
            /\ panning = last.pre.panning
       /\ ~last.shift =>
            /\ selectedNodeIds = <<>>
            /\ selectedNodeId = NoId
            /\ selectedEdgeId = NoId
            /\ panning
            /\ panStart = [x |-> last.x - last.pre.pan.x,
                           y |-> last.y - last.pre.pan.y]
            /\ marquee = last.pre.marquee
  /\ (Pressed /\ last.pre.selectedTool # "select") =>
       /\ panning = last.pre.panning
       /\ marquee = last.pre.marquee

(* A marquee opened while a node is selected. *)
C31_Witness ==
  /\ EmptyPress
  /\ last.shift
  /\ ~last.pre.marquee.active
  /\ marquee.active
  /\ selectedNodeIds # <<>>

-----------------------------------------------------------------------------
(* Alignment claims, checked under SpecAlign. *)

Aligning(modes) == last.name = "align" /\ last.mode \in modes

(* The places of the selected nodes before the command. *)
Chosen ==
  {i \in 1..Len(last.pre.nodes) :
     \E k \in 1..Len(last.pre.selectedNodeIds) :
       last.pre.selectedNodeIds[k] = last.pre.nodes[i].id}

Was(i, axis) == IF axis = "x" THEN last.pre.nodes[i].x ELSE last.pre.nodes[i].y

Now(i, axis) == IF axis = "x" THEN nodes[i].x ELSE nodes[i].y

Across(axis) == IF axis = "x" THEN "y" ELSE "x"

Smallest(axis) == CHOOSE v \in {Was(i, axis) : i \in Chosen} :
                    \A i \in Chosen : v <= Was(i, axis)

Largest(axis) == CHOOSE v \in {Was(i, axis) : i \in Chosen} :
                   \A i \in Chosen : Was(i, axis) <= v

(* Nothing but the coordinates of the selected nodes on one axis changed,  *)
(* and one snapshot was committed.                                         *)
OnlyMovedAlong(axis) ==
  /\ Len(nodes) = Len(last.pre.nodes)
  /\ \A i \in 1..Len(nodes) :
       /\ Without(nodes[i], {"x", "y"}) = Without(last.pre.nodes[i], {"x", "y"})
       /\ Now(i, Across(axis)) = Was(i, Across(axis))
       /\ i \notin Chosen => Now(i, axis) = Was(i, axis)
  /\ edges = last.pre.edges
  /\ selectedNodeIds = last.pre.selectedNodeIds
  /\ selectedNodeId = last.pre.selectedNodeId
  /\ selectedEdgeId = last.pre.selectedEdgeId
  /\ CommittedOnce

NothingDone ==
  /\ nodes = last.pre.nodes
  /\ edges = last.pre.edges
  /\ history = last.pre.history
  /\ historyIndex = last.pre.historyIndex
  /\ selectedNodeIds = last.pre.selectedNodeIds

AxisOf(mode) == IF mode \in {"left", "hcenter", "hspace"} THEN "x" ELSE "y"

(* C32: with two or more nodes selected, left and top take every selected  *)
(* node to the smallest selected x (y), hcenter and vcenter to the         *)
(* midpoint of the smallest and the largest; nothing else changes and one  *)
(* snapshot is committed.  With fewer selected nothing changes.            *)
C32_Align ==
  Aligning({"left", "hcenter", "top", "vcenter"}) =>
    IF Cardinality(Chosen) >= 2
      THEN /\ OnlyMovedAlong(AxisOf(last.mode))
           /\ last.mode \in {"left", "top"} =>
                \A i \in Chosen :
                  Now(i, AxisOf(last.mode)) = Smallest(AxisOf(last.mode))
           /\ last.mode \in {"hcenter", "vcenter"} =>
                \A i \in Chosen :
                  2 * Now(i, AxisOf(last.mode))
                    = Smallest(AxisOf(last.mode)) + Largest(AxisOf(last.mode))
      ELSE NothingDone

(* Three nodes taken to the left, two of them moved. *)
C32_Witness ==
  /\ Aligning({"left"})
  /\ Cardinality(Chosen) = 3
  /\ Cardinality({i \in Chosen : nodes[i].x # last.pre.nodes[i].x}) = 2

(* C33: with three or more nodes selected, hspace and vspace leave a      *)
(* selected node with the smallest coordinate and one with the largest     *)
(* where they are and put the selected nodes, in the order of their        *)
(* coordinates, at equal steps from the one to the other; nothing else     *)
(* changes and one snapshot is committed.  With two selected nothing       *)
(* changes.                                                                *)
Steps == Cardinality(Chosen) - 1

(* f gives every selected node its place in the row, from 0. *)
SpreadBy(f, axis) ==
  /\ \A i, j \in Chosen : i # j => f[i] # f[j]
  /\ \A i, j \in Chosen : Was(i, axis) < Was(j, axis) => f[i] < f[j]
  /\ \A i \in Chosen :
       Steps * (Now(i, axis) - Smallest(axis))
         = f[i] * (Largest(axis) - Smallest(axis))

C36_ConnectSourceExists ==
  /\ connectFromId # NoId => FindById(nodes, connectFromId) # 0
  /\ /\ last.name = "mouseDown"
     /\ last.pre.selectedTool = "connect"
     /\ Len(edges) = Len(last.pre.edges) + 1
     => /\ FindById(nodes, edges[Len(edges)].sourceId) # 0
        /\ FindById(nodes, edges[Len(edges)].targetId) # 0

(* C37: with the history initialized and no node and no bend handle being  *)
(* dragged, the live diagram equals the snapshot at historyIndex.          *)
C37_LiveIsCommitted ==
  historyReady /\ ~resetPending /\ ~Dragging(St) /\ fault = NoFault
    => Serialized(St) = Contents(history)[historyIndex + 1]

(* C38: every id of selectedNodeIds names a node of the diagram and a      *)
(* selectedEdgeId that is set names an edge of it.                         *)
C38_SelectionExists ==
  fault = NoFault =>
    /\ \A i \in 1..Len(selectedNodeIds) :
         FindById(nodes, selectedNodeIds[i]) # 0
    /\ selectedEdgeId # NoId => FindById(edges, selectedEdgeId) # 0

(* Some of the nodes were selected and the Delete key has removed them    *)
(* and the edges at them; other nodes remain.                              *)
C38_Witness ==
  /\ last.name = "delete"
  /\ Len(last.pre.selectedNodeIds) > 0
  /\ Len(nodes) > 0
  /\ Len(nodes) < Len(last.pre.nodes)
  /\ Len(edges) < Len(last.pre.edges)

(* C39: once the history is initialized it holds at least one snapshot     *)
(* and historyIndex is the index of one of them; a commit that drops the   *)
(* oldest snapshot at the cap leaves historyIndex at the newest.           *)
C39_IndexInHistory ==
  historyReady =>
    /\ Len(history) >= 1
    /\ 0 <= historyIndex /\ historyIndex <= Len(history) - 1
    /\ /\ last.name # "none"
       /\ Len(last.pre.history) = HistoryCap
       /\ last.pre.historyIndex = HistoryCap - 1
       /\ Contents(history) # Contents(last.pre.history)
       => /\ historyIndex = Len(history) - 1
          /\ Contents(history)[historyIndex + 1] = Serialized(St)

(* A commit at the cap: the oldest snapshot is gone, the rest have moved    *)
(* down by one.                                                            *)
C39_Witness ==
  /\ last.name # "none"
  /\ Len(last.pre.history) = HistoryCap
  /\ last.pre.historyIndex = HistoryCap - 1
  /\ Len(history) = HistoryCap
  /\ historyIndex = HistoryCap - 1
  /\ Contents(history)[1] = Contents(last.pre.history)[2]
  /\ Contents(history)[1] # Contents(last.pre.history)[1]

(* Claims on a drag whose target is deleted, checked under SpecStale.      *)

(* What is being dragged in the state s is gone: the edge of the bend      *)
(* handle, or every node of the group dragged.                             *)
Stale(s) ==
  IF s.draggingBendEdgeId # NoId
    THEN FindById(s.edges, s.draggingBendEdgeId) = 0
    ELSE /\ s.draggingNodeId # NoId
         /\ \A g \in {s.draggingNodeId} \cup Range(s.draggingGroupIds) :
              FindById(s.nodes, g) = 0

DistinctIds(objs) ==
  \A i, j \in 1..Len(objs) : i # j => objs[i].id # objs[j].id

(* C40: no two nodes of the diagram share an id and no two edges do.       *)
C40_IdsDistinct == DistinctIds(nodes) /\ DistinctIds(edges)

(* A paste of two nodes and the edge between them into the diagram they    *)
(* were copied from.                                                       *)
C40_Witness ==
  /\ last.name = "paste"
  /\ Len(nodes) = Len(last.pre.nodes) + 2
  /\ Len(edges) = Len(last.pre.edges) + 1
  /\ Len(last.pre.edges) >= 1

====
